---- MODULE Spec2Model ----
(***************************************************************************)
(* Per-user envelope encryption and credential handling of the family-tree *)
(* server: EncryptionService (services/encryption.service.ts), AuthService *)
(* (services/auth.service.ts), the auth routes and the client's key store. *)
(*                                                                         *)
(* Cryptographic primitives (PBKDF2, bcrypt, AES-256-GCM, randomBytes) are *)
(* symbolic: their outputs are terms that record the inputs they depend    *)
(* on.  Text conversions (UTF-8, hex, JSON) are modelled by what they do.  *)
(***************************************************************************)
EXTENDS Integers, Sequences, FiniteSets, TLC

(***************************************************************************)
(* Bounds of the model.                                                    *)
(***************************************************************************)
\* number of distinct values crypto.randomBytes can return for a salt
NumSalts == 2
\* number of distinct values crypto.randomBytes can return for an IV
NumIVs == 2
\* number of distinct 32-byte master keys a deployment may be configured with
NumMasterKeys == 2
\* longest plaintext (in UTF-16 code units) given to the field cipher
MaxTextLen == 2
\* longest short password (in UTF-16 code units) given to deriveUserKey alone
MaxPwLen == 2

(***************************************************************************)
(* Results of calls that may throw.                                        *)
(***************************************************************************)
Ok(v) == [kind |-> "ok", value |-> v]

Throw(m) == [kind |-> "throw", message |-> m]

(***************************************************************************)
(* Buffers.  A Buffer is a record: concrete bytes, or a symbolic term for  *)
(* the output of a primitive.                                              *)
(***************************************************************************)
Bytes(b) == [kind |-> "bytes", b |-> b]

EmptyBuf == Bytes(<< >>)

\* crypto.randomBytes(len): the n-th value the generator can return
RandomBytes(n, len) == [kind |-> "random", n |-> n, len |-> len]

RECURSIVE ByteLength(_)
ByteLength(buf) ==
    CASE buf.kind = "bytes"   -> Len(buf.b)
      [] buf.kind = "random"  -> buf.len
      [] buf.kind = "pbkdf2"  -> buf.len
      [] buf.kind = "gcm_ct"  -> ByteLength(buf.pt)
      [] buf.kind = "gcm_tag" -> 16
      [] buf.kind = "flip"    -> ByteLength(buf.of)
      [] buf.kind = "ctr"     -> ByteLength(buf.of)

(***************************************************************************)
(* UTF-8.  A JavaScript string is a sequence of UTF-16 code units.         *)
(***************************************************************************)
IsHighSurrogate(u) == u >= 55296 /\ u <= 56319

IsLowSurrogate(u) == u >= 56320 /\ u <= 57343

IsContinuation(b) == b >= 128 /\ b <= 191

EncodeCodePoint(cp) ==
    IF cp < 128 THEN << cp >>
    ELSE IF cp < 2048 THEN << 192 + (cp \div 64), 128 + (cp % 64) >>
    ELSE IF cp < 65536
         THEN << 224 + (cp \div 4096), 128 + ((cp \div 64) % 64), 128 + (cp % 64) >>
         ELSE << 240 + (cp \div 262144), 128 + ((cp \div 4096) % 64),
                 128 + ((cp \div 64) % 64), 128 + (cp % 64) >>

\* string -> bytes for a string that may hold non-ASCII code units: a
\* surrogate pair is one 4-byte sequence, an unpaired surrogate becomes U+FFFD
\* (EF BF BD).
RECURSIVE UTF8EncodeUnits(_)
UTF8EncodeUnits(s) ==
    IF s = << >> THEN << >>
    ELSE IF IsHighSurrogate(s[1]) /\ Len(s) >= 2 /\ IsLowSurrogate(s[2])
         THEN EncodeCodePoint(65536 + (s[1] - 55296) * 1024 + (s[2] - 56320))
                \o UTF8EncodeUnits(SubSeq(s, 3, Len(s)))
    ELSE IF IsHighSurrogate(s[1]) \/ IsLowSurrogate(s[1])
         THEN EncodeCodePoint(65533) \o UTF8EncodeUnits(Tail(s))
    ELSE EncodeCodePoint(s[1]) \o UTF8EncodeUnits(Tail(s))

\* string -> bytes, as Buffer.from(s, 'utf8') and cipher.update(s, 'utf8') do
\* (an ASCII string is its own encoding)
UTF8Encode(s) ==
    IF \A i \in 1..Len(s) : s[i] < 128 THEN s ELSE UTF8EncodeUnits(s)

\* code point -> UTF-16 code units
DecodeCodePoint(cp) ==
    IF cp >= 65536
    THEN << 55296 + ((cp - 65536) \div 1024), 56320 + ((cp - 65536) % 1024) >>
    ELSE IF IsHighSurrogate(cp) \/ IsLowSurrogate(cp) THEN << 65533 >>
    ELSE << cp >>

\* bytes -> string, as decipher.update(.., 'utf8') + decipher.final('utf8') do;
\* a byte that starts no valid sequence becomes U+FFFD.
RECURSIVE UTF8Decode(_)
UTF8Decode(b) ==
    IF b = << >> THEN << >>
    ELSE IF b[1] < 128 THEN << b[1] >> \o UTF8Decode(Tail(b))
    ELSE IF b[1] >= 194 /\ b[1] <= 223 /\ Len(b) >= 2 /\ IsContinuation(b[2])
         THEN DecodeCodePoint((b[1] - 192) * 64 + (b[2] - 128))
                \o UTF8Decode(SubSeq(b, 3, Len(b)))
    ELSE IF b[1] >= 224 /\ b[1] <= 239 /\ Len(b) >= 3
            /\ IsContinuation(b[2]) /\ IsContinuation(b[3])
            /\ (b[1] - 224) * 4096 + (b[2] - 128) * 64 + (b[3] - 128) >= 2048
         THEN DecodeCodePoint((b[1] - 224) * 4096 + (b[2] - 128) * 64 + (b[3] - 128))
                \o UTF8Decode(SubSeq(b, 4, Len(b)))
    ELSE IF b[1] >= 240 /\ b[1] <= 244 /\ Len(b) >= 4
            /\ IsContinuation(b[2]) /\ IsContinuation(b[3]) /\ IsContinuation(b[4])
            /\ (b[1] - 240) * 262144 + (b[2] - 128) * 4096
                 + (b[3] - 128) * 64 + (b[4] - 128) >= 65536
         THEN DecodeCodePoint((b[1] - 240) * 262144 + (b[2] - 128) * 4096
                                + (b[3] - 128) * 64 + (b[4] - 128))
                \o UTF8Decode(SubSeq(b, 5, Len(b)))
    ELSE << 65533 >> \o UTF8Decode(Tail(b))

\* Buffer -> string.  Bytes that are the output of a primitive (a key, a
\* keystream applied to foreign ciphertext) are pseudo-random and do not
\* decode to text; U+FFFD stands for the text they give.
BufferToString(buf) ==
    IF buf.kind = "bytes" THEN UTF8Decode(buf.b) ELSE << 65533 >>

(***************************************************************************)
(* Hex text.  A hex string is described by the Buffer it decodes to and by *)
(* its spelling: "lower" is what buf.toString('hex') writes; "upper" has   *)
(* the same digits in upper case; "tail" has a character that is no hex    *)
(* digit after the digits (Buffer.from(.., 'hex') stops there).            *)
(***************************************************************************)
HexForms == {"lower", "upper", "tail"}

HexText(buf, form) == [kind |-> "hex", of |-> buf, form |-> form]

\* a JSON member that is absent: JSON.parse leaves the property undefined
Undefined == [kind |-> "undefined"]

\* buf.toString('hex')
ToHex(buf) == HexText(buf, "lower")

\* Buffer.from(h, 'hex'): case-insensitive, stops at the first non-hex
\* character; throws a TypeError when h is undefined.
BufferFromHex(h) ==
    IF h.kind = "hex" THEN Ok(h.of)
    ELSE IF h.kind = "nonhex" THEN Ok(Bytes(<< >>))
    ELSE Throw("TypeError")

\* a string of len characters none of which is a hex digit
NonHexText(len) == [kind |-> "nonhex", len |-> len]

\* s.length of a string written in hex digits or in other characters
StringLength(s) ==
    CASE s.kind = "hex"    -> 2 * ByteLength(s.of) + (IF s.form = "tail" THEN 1 ELSE 0)
      [] s.kind = "nonhex" -> s.len
      [] s.kind = "empty"  -> 0

(***************************************************************************)
(* JSON text of an envelope.                                               *)
(***************************************************************************)
\* the empty string '' (the absent marker of the field cipher)
EmptyString == [kind |-> "empty"]

\* some string that is not JSON
NotJson == [kind |-> "text"]

\* JSON.stringify({ iv, data, authTag })
JSONstringify(o) ==
    [kind |-> "json", iv |-> o.iv, data |-> o.data, authTag |-> o.authTag]

\* JSON.parse(s)
JSONparse(s) ==
    IF s.kind = "json"
    THEN Ok([iv |-> s.iv, data |-> s.data, authTag |-> s.authTag])
    ELSE Throw("SyntaxError")

(***************************************************************************)
(* Symbolic primitives.                                                    *)
(***************************************************************************)
RECURSIVE StripTrailingZeros(_)
StripTrailingZeros(b) ==
    IF b # << >> /\ b[Len(b)] = 0
    THEN StripTrailingZeros(SubSeq(b, 1, Len(b) - 1))
    ELSE b

\* The key HMAC-SHA256 works with: a key longer than the 64-byte block is
\* hashed first, a shorter one is padded with zero bytes up to the block, so
\* two keys that differ only in trailing zero bytes are the same HMAC key.
HmacKey(b) ==
    IF Len(b) > 64
    THEN [kind |-> "sha256", msg |-> b]
    ELSE [kind |-> "padded", b |-> StripTrailingZeros(b)]

\* crypto.pbkdf2Sync(password, salt, iterations, keylen, 'sha256'): a
\* pseudo-random function of the HMAC key made from the password bytes, the
\* salt, the iteration count and the length.
pbkdf2Sync(password, salt, iterations, keylen) ==
    [kind |-> "pbkdf2", hkey |-> HmacKey(UTF8Encode(password)), salt |-> salt,
     iter |-> iterations, len |-> keylen]

\* a password as it arrives in a JSON body: a string, or not there at all
Str(s) == [kind |-> "string", s |-> s]

\* The key material bcrypt's key schedule reads: the password bytes followed
\* by a NUL, repeated cyclically, of which 72 bytes (18 words) are used.
BcryptKey(s) ==
    LET k == UTF8Encode(s) \o << 0 >>
    IN  [i \in 1..72 |-> k[((i - 1) % Len(k)) + 1]]

\* bcrypt.hash(password, rounds) of bcryptjs; rejects a password that is no
\* string.  (The hash's own random salt is kept inside the hash and read
\* back by compare, so it does not enter the comparison.)
bcryptHash(password, rounds) ==
    IF password.kind # "string"
    THEN Throw("Illegal arguments: undefined, number")
    ELSE Ok([kind |-> "bcrypt", rounds |-> rounds, key |-> BcryptKey(password.s)])

\* bcrypt.compare(password, hash) of bcryptjs
bcryptCompare(password, hash) ==
    IF password.kind # "string"
    THEN Throw("Illegal arguments: undefined, string")
    ELSE Ok(BcryptKey(password.s) = hash.key)

\* tag lengths setAuthTag accepts for GCM
GcmTagLengths == {4, 8, 12, 13, 14, 15, 16}

\* crypto.createCipheriv / createDecipheriv('aes-256-gcm', key, iv) succeed
CipherInitOk(key, iv) ==
    /\ key.kind # "undefined"
    /\ ByteLength(key) = 32
    /\ ByteLength(iv) > 0

\* cipher.update(pt) ++ cipher.final()
GcmCiphertext(key, iv, pt) ==
    IF ByteLength(pt) = 0 THEN EmptyBuf
    ELSE [kind |-> "gcm_ct", key |-> key, iv |-> iv, pt |-> pt]

\* the plaintext a ciphertext was made from under (key, iv), if any
GcmOpens(key, iv, ct) ==
    \/ ct = EmptyBuf
    \/ ct.kind = "gcm_ct" /\ ct.key = key /\ ct.iv = iv

\* cipher.getAuthTag(): 16 bytes that authenticate (key, iv, ciphertext)
GcmTag(key, iv, pt) ==
    [kind |-> "gcm_tag", key |-> key, iv |-> iv, pt |-> pt]

\* decipher.update(ct): counter mode, returns bytes before the tag is checked
GcmUpdate(key, iv, ct) ==
    IF ct = EmptyBuf THEN EmptyBuf
    ELSE IF GcmOpens(key, iv, ct) THEN ct.pt
    ELSE [kind |-> "ctr", key |-> key, iv |-> iv, of |-> ct]

\* decipher.final() does not throw: the tag set by setAuthTag authenticates
\* the ciphertext under (key, iv)
GcmFinalOk(key, iv, ct, tag) ==
    /\ GcmOpens(key, iv, ct)
    /\ tag = GcmTag(key, iv, GcmUpdate(key, iv, ct))

(***************************************************************************)
(* Tampering with stored bytes (used by the harness below).                *)
(***************************************************************************)
\* buf with one bit flipped
FlipBit(buf) == [kind |-> "flip", of |-> buf]

(***************************************************************************)
(* EncryptionService                                                       *)
(***************************************************************************)
\* iterations of deriveUserKey
Pbkdf2Iterations == 100000

\* key length of deriveUserKey, in bytes
KeyLen == 32

\* rounds of bcrypt.hash in register
BcryptRounds == 12

\* mutant of deriveUserKey: the salt argument is not passed on, every key is
\* derived with one fixed salt
deriveUserKeyFixedSalt(password, salt) ==
    pbkdf2Sync(password, RandomBytes(0, 32), Pbkdf2Iterations, KeyLen)

deriveUserKey(password, salt) ==
    pbkdf2Sync(password, salt, Pbkdf2Iterations, KeyLen)

\* mutant of encryptUserKey: the cipher is keyed with the user key instead of
\* the master key
encryptUserKeyUnderUserKey(userKey, masterKey, iv) ==
    IF ~CipherInitOk(userKey, iv) THEN Throw("Invalid key length")
    ELSE Ok(JSONstringify([iv      |-> ToHex(iv),
                           data    |-> ToHex(GcmCiphertext(userKey, iv, userKey)),
                           authTag |-> ToHex(GcmTag(userKey, iv, userKey))]))

\* encryptUserKey(userKey) with this.masterKey = masterKey and
\* crypto.randomBytes(16) = iv
encryptUserKey(userKey, masterKey, iv) ==
    IF ~CipherInitOk(masterKey, iv) THEN Throw("Invalid key length")
    ELSE Ok(JSONstringify([iv      |-> ToHex(iv),
                           data    |-> ToHex(GcmCiphertext(masterKey, iv, userKey)),
                           authTag |-> ToHex(GcmTag(masterKey, iv, userKey))]))

\* the try block of decryptUserKey and of decrypt up to setAuthTag and the
\* decoding of data: JSON.parse, createDecipheriv(key, Buffer.from(iv, 'hex')),
\* setAuthTag(Buffer.from(authTag, 'hex')), Buffer.from(data, 'hex')
DecipherSetup(text, key) ==
    LET parsed == JSONparse(text) IN
    IF parsed.kind = "throw" THEN parsed ELSE
    LET iv  == BufferFromHex(parsed.value.iv)
        tag == BufferFromHex(parsed.value.authTag)
        ct  == BufferFromHex(parsed.value.data)
    IN  IF iv.kind = "throw" THEN iv
        ELSE IF ~CipherInitOk(key, iv.value) THEN Throw("Invalid key length")
        ELSE IF tag.kind = "throw" THEN tag
        ELSE IF ByteLength(tag.value) \notin GcmTagLengths
             THEN Throw("Invalid authentication tag length")
        ELSE IF ct.kind = "throw" THEN ct
        ELSE Ok([key |-> key, iv |-> iv.value, ct |-> ct.value, tag |-> tag.value])

\* mutant of decryptUserKey: decipher.final() is not called, the output of
\* update is returned unauthenticated
decryptUserKeyNoFinal(encryptedKey, masterKey) ==
    LET d == DecipherSetup(encryptedKey, masterKey) IN
    IF d.kind = "throw" THEN Throw("Failed to decrypt user key")
    ELSE Ok(GcmUpdate(d.value.key, d.value.iv, d.value.ct))

\* decryptUserKey(encryptedKey) with this.masterKey = masterKey
decryptUserKey(encryptedKey, masterKey) ==
    LET d == DecipherSetup(encryptedKey, masterKey) IN
    IF d.kind = "throw" THEN Throw("Failed to decrypt user key")
    ELSE IF ~GcmFinalOk(d.value.key, d.value.iv, d.value.ct, d.value.tag)
         THEN Throw("Failed to decrypt user key")
    ELSE Ok(GcmUpdate(d.value.key, d.value.iv, d.value.ct))

\* mutant of encrypt: the plaintext is encoded as 'latin1' (one byte per code
\* unit) instead of 'utf8'
encryptLatin1(data, userKey, iv) ==
    IF data = << >> THEN Ok(EmptyString)
    ELSE IF ~CipherInitOk(userKey, iv) THEN Throw("Invalid key length")
    ELSE LET pt == Bytes([i \in 1..Len(data) |-> data[i] % 256]) IN
         Ok(JSONstringify([iv      |-> ToHex(iv),
                           data    |-> ToHex(GcmCiphertext(userKey, iv, pt)),
                           authTag |-> ToHex(GcmTag(userKey, iv, pt))]))

\* mutant of encrypt: the IV is a constant of the service
encryptStaticIv(data, userKey, iv) ==
    LET static == RandomBytes(1, 16) IN
    IF data = << >> THEN Ok(EmptyString)
    ELSE IF ~CipherInitOk(userKey, static) THEN Throw("Invalid key length")
    ELSE LET pt == Bytes(UTF8Encode(data)) IN
         Ok(JSONstringify([iv      |-> ToHex(static),
                           data    |-> ToHex(GcmCiphertext(userKey, static, pt)),
                           authTag |-> ToHex(GcmTag(userKey, static, pt))]))

\* mutant of encrypt: no early return for the empty string
encryptEmptyToo(data, userKey, iv) ==
    IF ~CipherInitOk(userKey, iv) THEN Throw("Invalid key length")
    ELSE LET pt == Bytes(UTF8Encode(data)) IN
         Ok(JSONstringify([iv      |-> ToHex(iv),
                           data    |-> ToHex(GcmCiphertext(userKey, iv, pt)),
                           authTag |-> ToHex(GcmTag(userKey, iv, pt))]))

\* encrypt(data, userKey) with crypto.randomBytes(16) = iv
encrypt(data, userKey, iv) ==
    IF data = << >> THEN Ok(EmptyString)
    ELSE IF ~CipherInitOk(userKey, iv) THEN Throw("Invalid key length")
    ELSE LET pt == Bytes(UTF8Encode(data)) IN
         Ok(JSONstringify([iv      |-> ToHex(iv),
                           data    |-> ToHex(GcmCiphertext(userKey, iv, pt)),
                           authTag |-> ToHex(GcmTag(userKey, iv, pt))]))

\* mutant of decrypt: the error of decipher.final() is swallowed and the
\* output of update is returned
decryptNoFinal(encrypted, userKey) ==
    IF encrypted.kind \in {"empty", "null", "undefined"} THEN Ok(<< >>)
    ELSE LET d == DecipherSetup(encrypted, userKey) IN
         IF d.kind = "throw" THEN Throw("Failed to decrypt data")
         ELSE Ok(BufferToString(GcmUpdate(d.value.key, d.value.iv, d.value.ct)))

\* decrypt(encrypted, userKey); '', null and undefined are falsy
decrypt(encrypted, userKey) ==
    IF encrypted.kind \in {"empty", "null", "undefined"} THEN Ok(<< >>)
    ELSE LET d == DecipherSetup(encrypted, userKey) IN
         IF d.kind = "throw" THEN Throw("Failed to decrypt data")
         ELSE IF ~GcmFinalOk(d.value.key, d.value.iv, d.value.ct, d.value.tag)
              THEN Throw("Failed to decrypt data")
         ELSE Ok(BufferToString(GcmUpdate(d.value.key, d.value.iv, d.value.ct)))

(***************************************************************************)
(* whole-record wrapper                                                    *)
(***************************************************************************)
\* the protected attributes carried by the model (encryptPerson and
\* decryptPerson treat all nine attributes of a person alike)
Attrs == {"firstName", "notes"}

\* the column and body member that holds the stored form of an attribute
EncName(a) == IF a = "firstName" THEN "encryptedFirstName" ELSE "encryptedNotes"

\* the members of a person object that the model carries
PersonFields == Attrs \cup {EncName(a) : a \in Attrs}

\* SQL NULL / JavaScript null
Null == [kind |-> "null"]

\* a JavaScript value is truthy
Truthy(v) ==
    /\ v.kind \notin {"undefined", "null", "empty"}
    /\ v.kind = "string" => v.s # << >>

\* encrypt(data, userKey) for a value of a JSON body: a string, null, or
\* undefined (a member that is not there)
encryptValue(data, userKey, iv) ==
    IF data.kind = "string" THEN encrypt(data.s, userKey, iv) ELSE Ok(EmptyString)

\* mutant of encryptPerson: the person is spread after the encrypted members,
\* so an encrypted* member of the person wins over the computed one
encryptPersonSpreadLast(person, userKey, ivs) ==
    LET enc(a) == IF Truthy(person[a])
                  THEN encryptValue(person[a], userKey, ivs[a])
                  ELSE Ok(Null)
    IN  IF \E a \in Attrs : enc(a).kind = "throw"
        THEN Throw("Invalid key length")
        ELSE Ok([a \in Attrs |-> IF person[EncName(a)] # Undefined
                                 THEN person[EncName(a)] ELSE enc(a).value])

\* encryptPerson(person, userKey): person maps each member of PersonFields to
\* its value in the object (Undefined if the member is not there); ivs gives
\* the crypto.randomBytes(16) of each encrypt call.  The result maps each
\* attribute to the value of its encrypted* member: the object literal spreads
\* person first and assigns the nine encrypted* members afterwards, so these
\* never come from person; the plaintext members are set to undefined.  A
\* throw of any encrypt call is the throw of encryptPerson.
encryptPerson(person, userKey, ivs) ==
    LET enc(a) == IF Truthy(person[a])
                  THEN encryptValue(person[a], userKey, ivs[a])
                  ELSE Ok(Null)
    IN  IF \E a \in Attrs : enc(a).kind = "throw"
        THEN Throw("Invalid key length")
        ELSE Ok([a \in Attrs |-> enc(a).value])

\* mutant of decryptPerson: the encrypted* members stay in the result
decryptPersonKeepsEnvelopes(encrypted, userKey) ==
    LET dec(a) == IF Truthy(encrypted[a]) THEN decrypt(encrypted[a], userKey)
                  ELSE Ok(<< >>)
    IN  IF \E a \in Attrs : dec(a).kind = "throw"
        THEN Throw("Failed to decrypt data")
        ELSE Ok([f \in PersonFields |->
                    IF f \in Attrs
                    THEN IF Truthy(encrypted[f]) THEN Str(dec(f).value) ELSE Null
                    ELSE encrypted[CHOOSE a \in Attrs : EncName(a) = f]])

\* mutant of decryptPerson: a field that fails to decrypt becomes null
decryptPersonSkipsFailures(encrypted, userKey) ==
    LET dec(a) == IF Truthy(encrypted[a]) THEN decrypt(encrypted[a], userKey)
                  ELSE Ok(<< >>)
    IN  Ok([f \in PersonFields |->
               IF f \in Attrs
               THEN IF Truthy(encrypted[f]) /\ dec(f).kind = "ok"
                    THEN Str(dec(f).value) ELSE Null
               ELSE Undefined])

\* decryptPerson(person, userKey): encrypted maps each attribute to the value
\* of its encrypted* column.  The result maps each plaintext member to the
\* decrypted string or null and each encrypted* member to undefined; a throw
\* of any decrypt call is the throw of decryptPerson.
decryptPerson(encrypted, userKey) ==
    LET dec(a) == IF Truthy(encrypted[a]) THEN decrypt(encrypted[a], userKey)
                  ELSE Ok(<< >>)
    IN  IF \E a \in Attrs : dec(a).kind = "throw"
        THEN Throw("Failed to decrypt data")
        ELSE Ok([f \in PersonFields |->
                    IF f \in Attrs
                    THEN IF Truthy(encrypted[f]) THEN Str(dec(f).value) ELSE Null
                    ELSE Undefined])

(***************************************************************************)
(* Inputs                                                                  *)
(***************************************************************************)
Salts == {RandomBytes(i, 32) : i \in 1..NumSalts}

IVs == {RandomBytes(i, 16) : i \in 1..NumIVs}

MasterKeys == {RandomBytes(100 + i, 32) : i \in 1..NumMasterKeys}

\* the master key this deployment is configured with
DeployedMasterKey == RandomBytes(101, 32)

Emails == {"ann@example.org", "bob@example.org"}

\* the emails that sign up; the other ones stay unknown to the server
Registrants == {"ann@example.org"}

\* generateSalt() at the registration of an account: an account registers
\* once, so one fresh salt per account
AccountSalt(email) == RandomBytes(IF email = "ann@example.org" THEN 1 ELSE 2, 32)

\* a password of 73 characters: 72 times "a", then the code unit last
LongPassword(last) == [i \in 1..73 |-> IF i <= 72 THEN 97 ELSE last]

\* passwords given to register, login and resetPassword: "a", and two
\* passwords of 73 characters that differ in the last one only
Passwords == {<< 97 >>, LongPassword(97), LongPassword(98)}

\* the password member of a request body
PasswordInputs == {Str(p) : p \in Passwords} \cup {Undefined}

\* code units of field plaintexts: a, e-acute, and the two halves of the
\* surrogate pair D83D DE00 (each half alone is an unpaired surrogate)
CodeUnits == {97, 233, 55357, 56832}

\* all strings of at most n code units from units
RECURSIVE TextsOver(_, _)
TextsOver(units, n) ==
    IF n = 0 THEN {<< >>}
    ELSE LET shorter == TextsOver(units, n - 1)
         IN  shorter \cup {Append(t, u) : t \in shorter, u \in units}

\* no unpaired surrogate
RECURSIVE WellFormed(_)
WellFormed(s) ==
    IF s = << >> THEN TRUE
    ELSE IF IsHighSurrogate(s[1])
         THEN Len(s) >= 2 /\ IsLowSurrogate(s[2]) /\ WellFormed(SubSeq(s, 3, Len(s)))
    ELSE ~IsLowSurrogate(s[1]) /\ WellFormed(Tail(s))

None == [kind |-> "none"]

VARIABLES
    \* --- server ---
    masterKey,      \* EncryptionService.masterKey
    users,          \* users table, by email
    people,         \* people table, by id
    events,         \* events table, by id
    familyTrees,    \* family_trees table, by id
    permissions,    \* permissions table: a set of rows
    relationships,  \* relationships table, by id
    env,            \* process.env.MASTER_ENCRYPTION_KEY
    running,        \* the process has started and serves requests
    \* --- client (browser) ---
    localStorage,   \* accessToken and userKey of the signed-in session
    resp,           \* the response to the last request
    \* --- history (not program state) ---
    registered,     \* by email: what register was given and returned
    passwords,      \* by email: the current and the previous password
    authored,       \* by person id: the key and plaintext of the last write
    \* --- cipher harness ---
    hEnv, hSrc, hTamper, hOut,
    \* --- derivation harness ---
    dPrev, dLast,
    \* --- random generator ---
    drawn,          \* how many values crypto.randomBytes(16) has returned
    issued,         \* history: key and IV of every envelope produced
    \* --- requests in flight ---
    regs            \* by request: how far a register call has got

serverVars == << masterKey, users, people >>

historyVars == << registered, passwords, authored >>

appVars == << masterKey, users, people, localStorage, resp,
              registered, passwords, authored >>

harnessVars == << hEnv, hSrc, hTamper, hOut >>

deriveVars == << dPrev, dLast >>

dataVars == << events, familyTrees, permissions, relationships >>

bootVars == << env, running >>

ivVars == << drawn, issued >>

procVars == << regs >>

extraVars == << dataVars, bootVars, ivVars, procVars >>

vars == << masterKey, users, people, localStorage, resp, registered, passwords,
           authored, hEnv, hSrc, hTamper, hOut, dPrev, dLast,
           events, familyTrees, permissions, relationships, env, running,
           drawn, issued, regs >>

(***************************************************************************)
(* Initial state: an empty store, nobody signed in, nothing under test.    *)
(***************************************************************************)
PersonIds == {"p1", "p2"}

EventIds == {"e1"}

RelIds == {"r1"}

\* the register requests that can be in flight together
Requests == {1, 2, 3}

TreeIds == {"t1"}

\* the ids of the family_trees table: the trees that are created and the
\* copy that a duplication makes
AllTreeIds == TreeIds \cup {"t2"}

\* what does not depend on the configuration: empty tables, nobody signed
\* in, nothing under test
InitRest ==
    /\ users = [e \in Emails |-> None]
    /\ people = [id \in PersonIds |-> None]
    /\ events = [id \in EventIds |-> None]
    /\ familyTrees = [t \in AllTreeIds |-> None]
    /\ permissions = {}
    /\ relationships = [id \in RelIds |-> None]
    /\ regs = [q \in Requests |-> None]
    /\ localStorage = None
    /\ resp = None
    /\ registered = [e \in Emails |-> None]
    /\ passwords = [e \in Emails |-> None]
    /\ authored = [id \in PersonIds |-> None]
    /\ hEnv = None
    /\ hSrc = None
    /\ hTamper = None
    /\ hOut = None
    /\ dPrev = None
    /\ dLast = None
    /\ drawn = 0
    /\ issued = {}

\* a deployment configured with a well-formed master key, started, its
\* EncryptionService constructed
Init ==
    /\ env = ToHex(DeployedMasterKey)
    /\ running = TRUE
    /\ masterKey = DeployedMasterKey
    /\ InitRest

(***************************************************************************)
(* AuthService                                                             *)
(***************************************************************************)
\* generateAccessToken({ userId, email }): a token that verifyAccessToken
\* accepts and that names the account
AccessToken(email) == [kind |-> "jwt", email |-> email]

\* mutant of register: a second generateSalt() value is stored instead of
\* the one the key was derived with
registerStoresOtherSalt(table, data, salt, iv, mk) ==
    IF table[data.email] # None
    THEN [result |-> Throw("User already exists"), users |-> table] ELSE
    LET passwordHash == bcryptHash(data.password, BcryptRounds) IN
    IF passwordHash.kind = "throw"
    THEN [result |-> passwordHash, users |-> table] ELSE
    LET userKey == deriveUserKey(data.password.s, salt)
        encryptedUserKey == encryptUserKey(userKey, mk, iv)
    IN  IF encryptedUserKey.kind = "throw"
        THEN [result |-> encryptedUserKey, users |-> table]
        ELSE [result |-> Ok([accessToken |-> AccessToken(data.email),
                             userKey |-> ToHex(userKey)]),
              users  |-> [table EXCEPT ![data.email] =
                            [kind |-> "user",
                             passwordHash |-> passwordHash.value,
                             encryptionSalt |-> ToHex(RandomBytes(salt.n + 50, 32)),
                             encryptedUserKey |-> encryptedUserKey.value]]]

\* mutant of register: the user key itself is written to the users row
registerStoresKeyInClear(table, data, salt, iv, mk) ==
    IF table[data.email] # None
    THEN [result |-> Throw("User already exists"), users |-> table] ELSE
    LET passwordHash == bcryptHash(data.password, BcryptRounds) IN
    IF passwordHash.kind = "throw"
    THEN [result |-> passwordHash, users |-> table] ELSE
    LET userKey == deriveUserKey(data.password.s, salt)
        encryptedUserKey == encryptUserKey(userKey, mk, iv)
    IN  IF encryptedUserKey.kind = "throw"
        THEN [result |-> encryptedUserKey, users |-> table]
        ELSE [result |-> Ok([accessToken |-> AccessToken(data.email),
                             userKey |-> ToHex(userKey)]),
              users  |-> [table EXCEPT ![data.email] =
                            [kind |-> "user",
                             passwordHash |-> passwordHash.value,
                             encryptionSalt |-> ToHex(salt),
                             encryptedUserKey |-> ToHex(userKey)]]]

\* mutant of register: the user key is wrapped under the salt that is stored
\* next to it
registerWrapsUnderSalt(table, data, salt, iv, mk) ==
    IF table[data.email] # None
    THEN [result |-> Throw("User already exists"), users |-> table] ELSE
    LET passwordHash == bcryptHash(data.password, BcryptRounds) IN
    IF passwordHash.kind = "throw"
    THEN [result |-> passwordHash, users |-> table] ELSE
    LET userKey == deriveUserKey(data.password.s, salt)
        encryptedUserKey == encryptUserKey(userKey, salt, iv)
    IN  IF encryptedUserKey.kind = "throw"
        THEN [result |-> encryptedUserKey, users |-> table]
        ELSE [result |-> Ok([accessToken |-> AccessToken(data.email),
                             userKey |-> ToHex(userKey)]),
              users  |-> [table EXCEPT ![data.email] =
                            [kind |-> "user",
                             passwordHash |-> passwordHash.value,
                             encryptionSalt |-> ToHex(salt),
                             encryptedUserKey |-> encryptedUserKey.value]]]

\* mutant of register: the stored envelope wraps a key derived with a second
\* salt, not the key that is returned
registerWrapsOtherKey(table, data, salt, iv, mk) ==
    IF table[data.email] # None
    THEN [result |-> Throw("User already exists"), users |-> table] ELSE
    LET passwordHash == bcryptHash(data.password, BcryptRounds) IN
    IF passwordHash.kind = "throw"
    THEN [result |-> passwordHash, users |-> table] ELSE
    LET userKey == deriveUserKey(data.password.s, salt)
        encryptedUserKey ==
            encryptUserKey(deriveUserKey(data.password.s, RandomBytes(0, 32)), mk, iv)
    IN  IF encryptedUserKey.kind = "throw"
        THEN [result |-> encryptedUserKey, users |-> table]
        ELSE [result |-> Ok([accessToken |-> AccessToken(data.email),
                             userKey |-> ToHex(userKey)]),
              users  |-> [table EXCEPT ![data.email] =
                            [kind |-> "user",
                             passwordHash |-> passwordHash.value,
                             encryptionSalt |-> ToHex(salt),
                             encryptedUserKey |-> encryptedUserKey.value]]]

\* AuthService.register(data) on the users table, with generateSalt() = salt,
\* the IV of encryptUserKey = iv and the master key mk: the value returned or
\* the error thrown, and the users table afterwards
register(table, data, salt, iv, mk) ==
    IF table[data.email] # None
    THEN [result |-> Throw("User already exists"), users |-> table] ELSE
    LET passwordHash == bcryptHash(data.password, BcryptRounds) IN
    IF passwordHash.kind = "throw"
    THEN [result |-> passwordHash, users |-> table] ELSE
    LET userKey == deriveUserKey(data.password.s, salt)
        encryptedUserKey == encryptUserKey(userKey, mk, iv)
    IN  IF encryptedUserKey.kind = "throw"
        THEN [result |-> encryptedUserKey, users |-> table]
        ELSE [result |-> Ok([accessToken |-> AccessToken(data.email),
                             userKey |-> ToHex(userKey)]),
              users  |-> [table EXCEPT ![data.email] =
                            [kind |-> "user",
                             passwordHash |-> passwordHash.value,
                             encryptionSalt |-> ToHex(salt),
                             encryptedUserKey |-> encryptedUserKey.value]]]

\* mutant of login: the stored salt is read as text (Buffer.from(salt)
\* without 'hex')
loginSaltAsText(table, data, mk) ==
    LET user == table[data.email] IN
    IF user = None THEN Throw("Invalid credentials") ELSE
    LET isValid == bcryptCompare(data.password, user.passwordHash) IN
    IF isValid.kind = "throw" THEN isValid
    ELSE IF ~isValid.value THEN Throw("Invalid credentials") ELSE
    LET salt    == [kind |-> "text", of |-> user.encryptionSalt]
        userKey == deriveUserKey(data.password.s, salt)
    IN  IF decryptUserKey(user.encryptedUserKey, mk).kind = "throw"
        THEN Throw("Encryption key verification failed")
        ELSE Ok([accessToken |-> AccessToken(data.email),
                 userKey |-> ToHex(userKey)])

\* mutant of login: the stored wrapped key is not unwrapped
loginNoKeyCheck(table, data, mk) ==
    LET user == table[data.email] IN
    IF user = None THEN Throw("Invalid credentials") ELSE
    LET isValid == bcryptCompare(data.password, user.passwordHash) IN
    IF isValid.kind = "throw" THEN isValid
    ELSE IF ~isValid.value THEN Throw("Invalid credentials") ELSE
    LET salt    == BufferFromHex(user.encryptionSalt).value
        userKey == deriveUserKey(data.password.s, salt)
    IN  Ok([accessToken |-> AccessToken(data.email),
            userKey |-> ToHex(userKey)])

\* AuthService.login(data) on the users table: the value returned or the
\* error thrown
login(table, data, mk) ==
    LET user == table[data.email] IN
    IF user = None THEN Throw("Invalid credentials") ELSE
    LET isValid == bcryptCompare(data.password, user.passwordHash) IN
    IF isValid.kind = "throw" THEN isValid
    ELSE IF ~isValid.value THEN Throw("Invalid credentials") ELSE
    LET salt    == BufferFromHex(user.encryptionSalt).value
        userKey == deriveUserKey(data.password.s, salt)
    IN  IF decryptUserKey(user.encryptedUserKey, mk).kind = "throw"
        THEN Throw("Encryption key verification failed")
        ELSE Ok([accessToken |-> AccessToken(data.email),
                 userKey |-> ToHex(userKey)])

\* resetPassword(account, newPassword) as the specification describes it
\* (the repository has no such operation): unwrap the user key with the
\* master key, hash the new password, wrap the same key again under a fresh
\* IV, persist both
resetPassword(table, email, newPassword, iv, mk) ==
    LET user == table[email]
        userKey == decryptUserKey(user.encryptedUserKey, mk)
        passwordHash == bcryptHash(newPassword, BcryptRounds)
    IN  IF userKey.kind = "throw" \/ passwordHash.kind = "throw" THEN table
        ELSE LET wrapped == encryptUserKey(userKey.value, mk, iv) IN
             IF wrapped.kind = "throw" THEN table
             ELSE [table EXCEPT ![email].passwordHash = passwordHash.value,
                                ![email].encryptedUserKey = wrapped.value]

(***************************************************************************)
(* Requests.  The browser is the client: it keeps the access token and the *)
(* user key of the last successful register or login in localStorage and   *)
(* sends both with every later request.                                    *)
(***************************************************************************)
\* the response of a route: the status, the error member of the body ("" if
\* none) and the userKey member of the body
Response(op, data, status, error, userKey) ==
    [op |-> op, email |-> data.email, password |-> data.password,
     status |-> status, error |-> error, userKey |-> userKey]

\* POST /api/auth/register with body { email, password } from
\* AuthContext.register
RegisterWith(mk, email, password, salt, iv) ==
    LET data == [email |-> email, password |-> password]
        r    == register(users, data, salt, iv, mk)
    IN  /\ users' = r.users
        /\ IF r.result.kind = "ok"
           THEN /\ resp' = Response("register", data, 200, "", r.result.value.userKey)
                /\ localStorage' = [kind |-> "session",
                                    accessToken |-> r.result.value.accessToken,
                                    userKey |-> r.result.value.userKey]
                /\ registered' = [registered EXCEPT ![email] =
                                    [kind |-> "registered", password |-> password,
                                     userKey |-> r.result.value.userKey]]
                /\ passwords' = [passwords EXCEPT ![email] =
                                    [kind |-> "passwords", current |-> password,
                                     previous |-> None]]
           ELSE /\ resp' = Response("register", data, 400, r.result.message, Undefined)
                /\ UNCHANGED << localStorage, registered, passwords >>
        /\ UNCHANGED << people, authored, harnessVars, deriveVars, extraVars >>

\* the same with the service that getEncryptionService built at startup of
\* the first request
Register(email, password, salt, iv) ==
    /\ RegisterWith(masterKey, email, password, salt, iv)
    /\ UNCHANGED masterKey

\* POST /api/auth/login with body { email, password } from AuthContext.login
LoginWith(mk, email, password) ==
    LET data == [email |-> email, password |-> password]
        r    == login(users, data, mk)
    IN  /\ IF r.kind = "ok"
           THEN /\ resp' = Response("login", data, 200, "", r.value.userKey)
                /\ localStorage' = [kind |-> "session",
                                    accessToken |-> r.value.accessToken,
                                    userKey |-> r.value.userKey]
           ELSE /\ resp' = Response("login", data, 401, r.message, Undefined)
                /\ UNCHANGED localStorage
        /\ UNCHANGED << users, people, historyVars, harnessVars, deriveVars,
                        extraVars >>

\* the same with the service that getEncryptionService built at startup of
\* the first request
Login(email, password) ==
    /\ LoginWith(masterKey, email, password)
    /\ UNCHANGED masterKey

\* resetPassword(account, newPassword) for an existing account
ResetPassword(email, newPassword, iv) ==
    /\ users[email] # None
    /\ users' = resetPassword(users, email, newPassword, iv, masterKey)
    /\ resp' = Response("resetPassword",
                        [email |-> email, password |-> newPassword], 200, "", Undefined)
    /\ passwords' = [passwords EXCEPT ![email] =
                        [kind |-> "passwords", current |-> newPassword,
                         previous |-> passwords[email].current]]
    /\ authored' = [id \in PersonIds |->
                        IF authored[id] # None /\ authored[id].email = email
                        THEN [authored[id] EXCEPT !.beforeReset = TRUE]
                        ELSE authored[id]]
    /\ UNCHANGED << masterKey, people, localStorage, registered,
                    harnessVars, deriveVars, extraVars >>

(***************************************************************************)
(* Import route                                                            *)
(***************************************************************************)
\* plaintexts of protected attributes sent by the browser
FieldTexts == {<< 233, 97 >>}

\* a person of an import body: each protected attribute a string or absent
PersonBodies == [PersonFields -> {Str(t) : t \in FieldTexts} \cup {Undefined}]

\* the bodies that carry at most the notes
NotesBodies == {b \in PersonBodies : \A f \in PersonFields \ {"notes"} : b[f] = Undefined}

\* the authenticate middleware: the userKey it sets from the X-User-Key
\* header (nothing when the header is missing or empty)
RequestKey(keyHeader) ==
    IF keyHeader.kind = "hex" THEN BufferFromHex(keyHeader).value ELSE Undefined

\* the user the access token of the browser names
TokenUser == localStorage.accessToken.email

\* POST /api/import with an X-User-Key header (Undefined: no header) and
\* body { people: [person], familyTreeId } where person.id = id, and the IVs
\* of the encrypt calls.  familyTreeId = "" is a body without one.
ImportWith(keyHeader, id, person, familyTreeId, ivs) ==
    LET data == [email |-> IF localStorage = None THEN "" ELSE TokenUser,
                 password |-> Undefined]
        userKey == RequestKey(keyHeader)
        fail(status, error) ==
            /\ resp' = Response("import", data, status, error, Undefined)
            /\ UNCHANGED << serverVars, localStorage, historyVars,
                            harnessVars, deriveVars, extraVars >>
    IN
    IF localStorage = None THEN fail(401, "Unauthorized")
    ELSE IF userKey = Undefined THEN fail(400, "Encryption key required")
    ELSE IF familyTreeId = "" THEN fail(400, "Family Tree ID is required")
    ELSE LET encryptedPerson == encryptPerson(person, userKey, ivs)
         IN  IF encryptedPerson.kind = "throw"
             THEN fail(500, "Import failed: " \o encryptedPerson.message)
             ELSE /\ people' = [people EXCEPT ![id] =
                                  [kind |-> "row", familyTreeId |-> familyTreeId,
                                   encrypted |-> encryptedPerson.value]]
                  /\ authored' = [authored EXCEPT ![id] =
                                  [kind |-> "authored", email |-> data.email,
                                   key |-> userKey, plain |-> person,
                                   beforeReset |-> FALSE]]
                  /\ resp' = Response("import", data, 200, "", Undefined)
                  /\ UNCHANGED << masterKey, users, localStorage, registered,
                                  passwords, harnessVars, deriveVars, extraVars >>

\* POST /api/import from the browser: getHeaders sends the token and the
\* user key of localStorage
Import(id, person, familyTreeId, ivs) ==
    ImportWith(IF localStorage = None THEN Undefined ELSE localStorage.userKey,
               id, person, familyTreeId, ivs)

Next ==
    \/ \E e \in Registrants, pw \in PasswordInputs, iv \in IVs :
          Register(e, pw, AccountSalt(e), iv)
    \/ \E e \in Emails, pw \in PasswordInputs : Login(e, pw)
    \/ \E e \in Registrants, pw \in Passwords, iv \in IVs : ResetPassword(e, Str(pw), iv)
    \/ \E person \in NotesBodies, t \in TreeIds \cup {""}, iv \in IVs :
          Import("p1", person, t, [a \in Attrs |-> iv])

Spec == Init /\ [][Next]_vars

(***************************************************************************)
(* People, events and family-tree routes.  Each request carries the token  *)
(* of the browser and an X-User-Key header of the caller's choice.         *)
(***************************************************************************)
\* the response of a data route: the status, the error member of the body
\* ("" if none), the body of a success, and the userKey the request carried
DataResponse(op, userKey, status, error, body) ==
    [op |-> op, key |-> userKey, status |-> status, error |-> error, body |-> body]

\* the answer of Hono to a handler that throws
InternalServerError(op, userKey) ==
    DataResponse(op, userKey, 500, "Internal Server Error", None)

\* checkAccess of the people routes: a row of the permissions table
checkAccess(userId, familyTreeId) ==
    \E perm \in permissions :
        perm.userId = userId /\ perm.familyTreeId = familyTreeId

\* checkAccess of utils/permissions (events routes): a row of the permissions
\* table, or the owner of the tree
checkAccessOrOwner(userId, familyTreeId) ==
    \/ checkAccess(userId, familyTreeId)
    \/ familyTrees[familyTreeId] # None /\ familyTrees[familyTreeId].ownerId = userId

\* a request that changes nothing on the server answers
Answer(r) ==
    /\ resp' = r
    /\ UNCHANGED << serverVars, localStorage, historyVars, harnessVars,
                    deriveVars, extraVars >>

\* mutant of CreateTree: the route is mounted without the authenticate
\* middleware
CreateTreeNoAuth(id, name) ==
    LET userId == IF localStorage = None THEN "" ELSE localStorage.accessToken.email IN
    IF name = ""
    THEN Answer(DataResponse("createTree", Undefined, 400, "Name is required", None))
    ELSE /\ familyTrees[id] = None
         /\ familyTrees' = [familyTrees EXCEPT ![id] =
                              [kind |-> "tree", ownerId |-> userId, name |-> name]]
         /\ permissions' = permissions \cup
                              {[familyTreeId |-> id, userId |-> userId, role |-> "owner"]}
         /\ resp' = DataResponse("createTree", Undefined, 201, "", None)
         /\ UNCHANGED << serverVars, localStorage, historyVars, harnessVars,
                         deriveVars, events, relationships, bootVars, ivVars, procVars >>

\* POST /api/family-trees with body { name }; id is crypto.randomUUID()
CreateTree(id, name) ==
    IF localStorage = None
    THEN Answer(DataResponse("createTree", Undefined, 401, "Unauthorized", None))
    ELSE IF name = ""
    THEN Answer(DataResponse("createTree", Undefined, 400, "Name is required", None))
    ELSE /\ familyTrees[id] = None
         /\ familyTrees' = [familyTrees EXCEPT ![id] =
                              [kind |-> "tree", ownerId |-> TokenUser, name |-> name]]
         /\ permissions' = permissions \cup
                              {[familyTreeId |-> id, userId |-> TokenUser, role |-> "owner"]}
         /\ resp' = DataResponse("createTree", Undefined, 201, "", None)
         /\ UNCHANGED << serverVars, localStorage, historyVars, harnessVars,
                         deriveVars, events, relationships, bootVars, ivVars, procVars >>

\* GET /api/people?familyTreeId=..
ListPeople(familyTreeId, keyHeader) ==
    LET userKey == RequestKey(keyHeader)
        op == "listPeople"
        decrypted == [id \in PersonIds |->
                        IF people[id] # None /\ people[id].familyTreeId = familyTreeId
                        THEN decryptPerson(people[id].encrypted, userKey)
                        ELSE Ok(None)]
    IN  Answer(
        IF localStorage = None THEN DataResponse(op, userKey, 401, "Unauthorized", None)
        ELSE IF familyTreeId = "" THEN DataResponse(op, userKey, 400, "familyTreeId required", None)
        ELSE IF ~checkAccess(TokenUser, familyTreeId)
             THEN DataResponse(op, userKey, 403, "Forbidden", None)
        ELSE IF userKey = Undefined
             THEN DataResponse(op, userKey, 400, "Encryption key required", None)
        ELSE IF \E id \in PersonIds : decrypted[id].kind = "throw"
             THEN InternalServerError(op, userKey)
        ELSE DataResponse(op, userKey, 200, "", [id \in PersonIds |-> decrypted[id].value]))

\* GET /api/people/:id
GetPerson(id, keyHeader) ==
    LET userKey == RequestKey(keyHeader)
        op == "getPerson"
    IN  Answer(
        IF localStorage = None THEN DataResponse(op, userKey, 401, "Unauthorized", None)
        ELSE IF people[id] = None THEN DataResponse(op, userKey, 404, "404 Not Found", None)
        ELSE IF ~checkAccess(TokenUser, people[id].familyTreeId)
             THEN DataResponse(op, userKey, 403, "Forbidden", None)
        ELSE LET person == decryptPerson(people[id].encrypted, userKey) IN
             IF person.kind = "throw" THEN InternalServerError(op, userKey)
             ELSE DataResponse(op, userKey, 200, "",
                               [i \in PersonIds |-> IF i = id THEN person.value ELSE None]))

\* the effect of a people route that stored the row id from body under userKey
StorePerson(op, status, id, familyTreeId, encrypted, body, userKey) ==
    /\ people' = [people EXCEPT ![id] =
                    [kind |-> "row", familyTreeId |-> familyTreeId,
                     encrypted |-> encrypted]]
    /\ authored' = [authored EXCEPT ![id] =
                    [kind |-> "authored", email |-> TokenUser, key |-> userKey,
                     plain |-> body, beforeReset |-> FALSE]]
    /\ resp' = DataResponse(op, userKey, status, "",
                            [i \in PersonIds |-> IF i = id THEN body ELSE None])
    /\ UNCHANGED << masterKey, users, localStorage, registered, passwords,
                    harnessVars, deriveVars, extraVars >>

\* POST /api/people with body { ...body, familyTreeId }; id is uuidv4()
CreatePerson(id, body, familyTreeId, keyHeader, ivs) ==
    LET userKey == RequestKey(keyHeader)
        op == "createPerson"
    IN
    IF localStorage = None THEN Answer(DataResponse(op, userKey, 401, "Unauthorized", None))
    ELSE IF familyTreeId = ""
         THEN Answer(DataResponse(op, userKey, 400, "familyTreeId required", None))
    ELSE IF ~checkAccess(TokenUser, familyTreeId)
         THEN Answer(DataResponse(op, userKey, 403, "Forbidden", None))
    ELSE LET encryptedData == encryptPerson(body, userKey, ivs) IN
         IF encryptedData.kind = "throw" THEN Answer(InternalServerError(op, userKey))
         ELSE /\ people[id] = None
              /\ StorePerson(op, 201, id, familyTreeId, encryptedData.value, body, userKey)

\* PUT /api/people/:id with body: the update sets every member of the
\* encrypted object that is not undefined, and encryptPerson gives each of
\* the encrypted* members a value or null
UpdatePerson(id, body, keyHeader, ivs) ==
    LET userKey == RequestKey(keyHeader)
        op == "updatePerson"
    IN
    IF localStorage = None THEN Answer(DataResponse(op, userKey, 401, "Unauthorized", None))
    ELSE IF people[id] = None
         THEN Answer(DataResponse(op, userKey, 404, "404 Not Found", None))
    ELSE IF ~checkAccess(TokenUser, people[id].familyTreeId)
         THEN Answer(DataResponse(op, userKey, 403, "Forbidden", None))
    ELSE LET encrypted == encryptPerson(body, userKey, ivs) IN
         IF encrypted.kind = "throw" THEN Answer(InternalServerError(op, userKey))
         ELSE StorePerson(op, 200, id, people[id].familyTreeId, encrypted.value,
                          body, userKey)

\* the members of an event object that the model carries (the routes treat
\* date, place and description alike)
EventFields == {"date", "encryptedDate"}

\* decryptEvent of GET /api/events/person/:personId
decryptEvent(ev, userKey) ==
    LET date == IF Truthy(ev.encryptedDate) THEN decrypt(ev.encryptedDate, userKey)
                ELSE Ok(<< >>)
    IN  IF date.kind = "throw" THEN Throw("Failed to decrypt data")
        ELSE Ok([f \in EventFields |->
                    IF f = "date"
                    THEN IF Truthy(ev.encryptedDate) THEN Str(date.value) ELSE Null
                    ELSE Undefined])

\* GET /api/events/person/:personId
ListEvents(personId, keyHeader) ==
    LET userKey == RequestKey(keyHeader)
        op == "listEvents"
        decrypted == [id \in EventIds |->
                        IF events[id] # None /\ events[id].personId = personId
                        THEN decryptEvent(events[id], userKey)
                        ELSE Ok(None)]
    IN  Answer(
        IF localStorage = None THEN DataResponse(op, userKey, 401, "Unauthorized", None)
        ELSE IF people[personId] = None
             THEN DataResponse(op, userKey, 404, "404 Not Found", None)
        ELSE IF ~checkAccessOrOwner(TokenUser, people[personId].familyTreeId)
             THEN DataResponse(op, userKey, 403, "Forbidden", None)
        ELSE IF \E id \in EventIds : decrypted[id].kind = "throw"
             THEN InternalServerError(op, userKey)
        ELSE DataResponse(op, userKey, 200, "", [id \in EventIds |-> decrypted[id].value]))

\* the effect of an events route that stored the row id
StoreEvent(op, status, id, personId, encryptedDate, body, userKey) ==
    /\ events' = [events EXCEPT ![id] =
                    [kind |-> "event", personId |-> personId,
                     encryptedDate |-> encryptedDate]]
    /\ resp' = DataResponse(op, userKey, status, "",
                            [i \in EventIds |->
                                [f \in EventFields |->
                                    IF f = "date" THEN body.date ELSE Undefined]])
    /\ UNCHANGED << serverVars, localStorage, historyVars, harnessVars,
                    deriveVars, familyTrees, permissions, relationships,
                    bootVars, ivVars, procVars >>

\* POST /api/events with body { personId, date }; personId = "" is a body
\* without one; id is uuidv4()
CreateEvent(id, body, keyHeader, iv) ==
    LET userKey == RequestKey(keyHeader)
        op == "createEvent"
    IN
    IF localStorage = None THEN Answer(DataResponse(op, userKey, 401, "Unauthorized", None))
    ELSE IF body.personId = ""
         THEN Answer(DataResponse(op, userKey, 400, "personId required", None))
    ELSE IF people[body.personId] = None
         THEN Answer(DataResponse(op, userKey, 404, "Person not found", None))
    ELSE IF ~checkAccessOrOwner(TokenUser, people[body.personId].familyTreeId)
         THEN Answer(DataResponse(op, userKey, 403, "Forbidden", None))
    ELSE LET encryptedDate == IF Truthy(body.date)
                              THEN encryptValue(body.date, userKey, iv)
                              ELSE Ok(Null)
         IN  IF encryptedDate.kind = "throw" THEN Answer(InternalServerError(op, userKey))
             ELSE /\ events[id] = None
                  /\ StoreEvent(op, 201, id, body.personId, encryptedDate.value,
                                body, userKey)

\* PUT /api/events/:id with body { date }: only the members of the body that
\* are not undefined are encrypted and set
UpdateEvent(id, body, keyHeader, iv) ==
    LET userKey == RequestKey(keyHeader)
        op == "updateEvent"
    IN
    IF localStorage = None THEN Answer(DataResponse(op, userKey, 401, "Unauthorized", None))
    ELSE IF events[id] = None \/ people[events[id].personId] = None
         THEN Answer(DataResponse(op, userKey, 404, "404 Not Found", None))
    ELSE IF ~checkAccessOrOwner(TokenUser, people[events[id].personId].familyTreeId)
         THEN Answer(DataResponse(op, userKey, 403, "Forbidden", None))
    ELSE LET encryptedDate == IF body.date # Undefined
                              THEN encryptValue(body.date, userKey, iv)
                              ELSE Ok(events[id].encryptedDate)
         IN  IF encryptedDate.kind = "throw" THEN Answer(InternalServerError(op, userKey))
             ELSE StoreEvent(op, 200, id, events[id].personId, encryptedDate.value,
                             body, userKey)

\* DELETE /api/people/:id.  The events of the person go with it when the
\* database enforces the foreign keys (cascade), and stay otherwise.
DeletePerson(id, cascade) ==
    LET op == "deletePerson" IN
    IF localStorage = None THEN Answer(DataResponse(op, Undefined, 401, "Unauthorized", None))
    ELSE IF people[id] = None
         THEN Answer(DataResponse(op, Undefined, 404, "404 Not Found", None))
    ELSE IF ~checkAccess(TokenUser, people[id].familyTreeId)
         THEN Answer(DataResponse(op, Undefined, 403, "Forbidden", None))
    ELSE /\ people' = [people EXCEPT ![id] = None]
         /\ authored' = [authored EXCEPT ![id] = None]
         /\ events' = [e \in EventIds |->
                          IF cascade /\ events[e] # None /\ events[e].personId = id
                          THEN None ELSE events[e]]
         /\ resp' = DataResponse(op, Undefined, 200, "", None)
         /\ UNCHANGED << masterKey, users, localStorage, registered, passwords,
                         harnessVars, deriveVars, familyTrees, permissions,
                         relationships, bootVars, ivVars, procVars >>

\* DELETE /api/events/:id
DeleteEvent(id) ==
    LET op == "deleteEvent" IN
    IF localStorage = None THEN Answer(DataResponse(op, Undefined, 401, "Unauthorized", None))
    ELSE IF events[id] = None \/ people[events[id].personId] = None
         THEN Answer(DataResponse(op, Undefined, 404, "404 Not Found", None))
    ELSE IF ~checkAccessOrOwner(TokenUser, people[events[id].personId].familyTreeId)
         THEN Answer(DataResponse(op, Undefined, 403, "Forbidden", None))
    ELSE /\ events' = [events EXCEPT ![id] = None]
         /\ resp' = DataResponse(op, Undefined, 200, "", None)
         /\ UNCHANGED << serverVars, localStorage, historyVars, harnessVars,
                         deriveVars, familyTrees, permissions, relationships,
                         bootVars, ivVars, procVars >>

\* the effect of a relationships route that wrote the table
StoreRelationships(op, status, table) ==
    /\ relationships' = table
    /\ resp' = DataResponse(op, Undefined, status, "", None)
    /\ UNCHANGED << serverVars, localStorage, historyVars, harnessVars,
                    deriveVars, events, familyTrees, permissions,
                    bootVars, ivVars, procVars >>

\* GET /api/relationships?familyTreeId=..
ListRelationships(familyTreeId) ==
    LET op == "listRelationships" IN
    Answer(
        IF localStorage = None THEN DataResponse(op, Undefined, 401, "Unauthorized", None)
        ELSE IF familyTreeId = ""
             THEN DataResponse(op, Undefined, 400, "familyTreeId required", None)
        ELSE IF ~checkAccessOrOwner(TokenUser, familyTreeId)
             THEN DataResponse(op, Undefined, 403, "Forbidden", None)
        ELSE DataResponse(op, Undefined, 200, "",
                          [id \in RelIds |->
                              IF relationships[id] # None
                                 /\ relationships[id].familyTreeId = familyTreeId
                              THEN relationships[id] ELSE None]))

\* POST /api/relationships with body { familyTreeId, type }; id is uuidv4()
CreateRelationship(id, familyTreeId, type) ==
    LET op == "createRelationship" IN
    IF localStorage = None THEN Answer(DataResponse(op, Undefined, 401, "Unauthorized", None))
    ELSE IF familyTreeId = ""
         THEN Answer(DataResponse(op, Undefined, 400, "familyTreeId required", None))
    ELSE IF ~checkAccessOrOwner(TokenUser, familyTreeId)
         THEN Answer(DataResponse(op, Undefined, 403, "Forbidden", None))
    ELSE /\ relationships[id] = None
         /\ StoreRelationships(op, 201,
                [relationships EXCEPT ![id] =
                    [kind |-> "rel", familyTreeId |-> familyTreeId, type |-> type]])

\* PUT /api/relationships/:id with body { type }
UpdateRelationship(id, type) ==
    LET op == "updateRelationship" IN
    IF localStorage = None THEN Answer(DataResponse(op, Undefined, 401, "Unauthorized", None))
    ELSE IF relationships[id] = None
         THEN Answer(DataResponse(op, Undefined, 404, "404 Not Found", None))
    ELSE IF ~checkAccessOrOwner(TokenUser, relationships[id].familyTreeId)
         THEN Answer(DataResponse(op, Undefined, 403, "Forbidden", None))
    ELSE StoreRelationships(op, 200, [relationships EXCEPT ![id].type = type])

\* DELETE /api/relationships/:id
DeleteRelationship(id) ==
    LET op == "deleteRelationship" IN
    IF localStorage = None THEN Answer(DataResponse(op, Undefined, 401, "Unauthorized", None))
    ELSE IF relationships[id] = None
         THEN Answer(DataResponse(op, Undefined, 404, "404 Not Found", None))
    ELSE IF ~checkAccessOrOwner(TokenUser, relationships[id].familyTreeId)
         THEN Answer(DataResponse(op, Undefined, 403, "Forbidden", None))
    ELSE StoreRelationships(op, 200, [relationships EXCEPT ![id] = None])

\* POST /api/family-trees/:id/duplicate: a new tree newTreeId owned by the
\* caller, and every person of the source tree copied, with its encrypted
\* columns as they are, to a new id.  The model follows source trees with
\* one person and no event or relationship (whose copy has the id newId).
DuplicateTree(sourceTreeId, newTreeId, newId, keyHeader) ==
    LET op == "duplicateTree"
        userKey == RequestKey(keyHeader)
        sourcePeople == {id \in PersonIds :
                            people[id] # None /\ people[id].familyTreeId = sourceTreeId}
        source == CHOOSE id \in sourcePeople : TRUE
    IN
    IF localStorage = None THEN Answer(DataResponse(op, userKey, 401, "Unauthorized", None))
    ELSE IF familyTrees[sourceTreeId] = None
         THEN Answer(DataResponse(op, userKey, 404, "Tree not found", None))
    ELSE IF ~checkAccessOrOwner(TokenUser, sourceTreeId)
         THEN Answer(DataResponse(op, userKey, 403, "Forbidden", None))
    ELSE /\ familyTrees[newTreeId] = None
         /\ Cardinality(sourcePeople) = 1
         /\ people[newId] = None
         /\ {e \in EventIds : IF events[e] = None THEN FALSE
                                ELSE events[e].personId \in sourcePeople} = {}
         /\ {r \in RelIds : IF relationships[r] = None THEN FALSE
                              ELSE relationships[r].familyTreeId = sourceTreeId} = {}
         /\ familyTrees' = [familyTrees EXCEPT ![newTreeId] =
                               [kind |-> "tree", ownerId |-> TokenUser,
                                name |-> "Copy of " \o familyTrees[sourceTreeId].name]]
         /\ permissions' = permissions \cup
                              {[familyTreeId |-> newTreeId, userId |-> TokenUser,
                                role |-> "owner"]}
         /\ people' = [people EXCEPT ![newId] =
                          [people[source] EXCEPT !.familyTreeId = newTreeId]]
         /\ authored' = [authored EXCEPT ![newId] =
                            [authored[source] EXCEPT !.email = TokenUser,
                                                     !.key = userKey,
                                                     !.beforeReset = FALSE]]
         /\ resp' = DataResponse(op, userKey, 201, "", None)
         /\ UNCHANGED << masterKey, users, localStorage, registered, passwords,
                         harnessVars, deriveVars, events, relationships, bootVars,
                         ivVars, procVars >>

\* a row of the permissions table with a role other than owner.  No route
\* writes one; the roles are those the schema names, and the row is put in
\* by whoever administers the database.
GrantPermission(familyTreeId, userId, role) ==
    /\ familyTrees[familyTreeId] # None
    /\ users[userId] # None
    /\ ~checkAccessOrOwner(userId, familyTreeId)
    /\ permissions' = permissions \cup
                         {[familyTreeId |-> familyTreeId, userId |-> userId, role |-> role]}
    /\ UNCHANGED << appVars, harnessVars, deriveVars, events, familyTrees,
                    relationships, bootVars, ivVars, procVars >>

(***************************************************************************)
(* The data specification: one account signs up and works on its tree.     *)
(***************************************************************************)
\* the account of the data specification
DataUser == "ann@example.org"

\* a key that is not the key of the account: the key login returns for the
\* password "b"
OtherUserKey == deriveUserKey(<< 98 >>, AccountSalt(DataUser))

\* X-User-Key headers: the key of the browser session, another key, none
KeyHeaders ==
    {ToHex(OtherUserKey), Undefined}
        \cup (IF localStorage = None THEN {} ELSE {localStorage.userKey})

\* bodies of the people routes: both attributes; the first name only; no
\* protected attribute; an empty first name; the first name and a value put
\* directly into encryptedNotes
DataBodies ==
    LET body(firstName, notes, encryptedNotes) ==
            [f \in PersonFields |->
                CASE f = "firstName"      -> firstName
                  [] f = "notes"          -> notes
                  [] f = "encryptedNotes" -> encryptedNotes
                  [] OTHER                -> Undefined]
        text == Str(<< 233, 97 >>)
    IN  {body(text, text, Undefined), body(text, Undefined, Undefined),
         body(Undefined, Undefined, Undefined), body(Str(<< >>), text, Undefined),
         body(text, Undefined, Str(<< 112 >>))}

\* the draws of crypto.randomBytes(16) of a request: one for each encrypt
\* call, and they differ
DataIvs == {[a \in Attrs |-> RandomBytes(IF a = "firstName" THEN 1 ELSE 2, 16)]}

\* bodies of the events routes: a date, an empty date, no date
EventBodies ==
    [personId : {"p1", ""}, date : {Str(<< 50 >>), Str(<< >>), Undefined}]

\* uuidv4(): an id of the table that is not in use (which one does not
\* matter); empty when the table of the model is full
FreeIds(table, ids) ==
    IF \E id \in ids : table[id] = None
    THEN {CHOOSE id \in ids : table[id] = None}
    ELSE {}

DataNext ==
    \/ Register(DataUser, Str(<< 97 >>), AccountSalt(DataUser), RandomBytes(1, 16))
    \/ \E t \in TreeIds, name \in {"Smith", ""} : CreateTree(t, name)
    \/ \E t \in TreeIds \cup {""}, h \in KeyHeaders : ListPeople(t, h)
    \/ \E id \in PersonIds, h \in KeyHeaders : GetPerson(id, h)
    \/ \E id \in FreeIds(people, PersonIds), body \in DataBodies, t \in TreeIds,
          h \in KeyHeaders, ivs \in DataIvs : CreatePerson(id, body, t, h, ivs)
    \/ \E id \in PersonIds, body \in DataBodies, h \in KeyHeaders, ivs \in DataIvs :
          UpdatePerson(id, body, h, ivs)
    \/ \E body \in DataBodies, t \in TreeIds, h \in KeyHeaders, ivs \in DataIvs :
          ImportWith(h, "p1", body, t, ivs)
    \/ \E personId \in PersonIds, h \in KeyHeaders : ListEvents(personId, h)
    \/ \E id \in FreeIds(events, EventIds), body \in EventBodies, h \in KeyHeaders :
          CreateEvent(id, body, h, RandomBytes(1, 16))
    \/ \E id \in EventIds, body \in EventBodies, h \in KeyHeaders :
          UpdateEvent(id, body, h, RandomBytes(2, 16))

DataSpec == Init /\ [][DataNext]_vars

(***************************************************************************)
(* Cipher harness: one envelope at a time is produced by encrypt or by     *)
(* encryptUserKey, possibly altered in storage, and then given to decrypt  *)
(* or decryptUserKey with some key.                                        *)
(***************************************************************************)
HarnessPlaintexts == TextsOver(CodeUnits, MaxTextLen)

\* user keys: derived ones, and a one-byte key (an X-User-Key header may
\* hold any hex string)
HarnessUserKeys == {deriveUserKey(<< 97 >>, salt) : salt \in Salts} \cup {Bytes(<< 171 >>)}

\* how a stored envelope is altered.  A hex member: one bit of the bytes
\* flipped; the digits written in upper case; a non-hex character appended;
\* a non-hex character put first; the member removed.  The whole text:
\* replaced by text that is no JSON.
TamperKinds == {"flip", "upper", "tail", "nothex", "missing", "notjson"}

TamperMembers == {"iv", "data", "authTag"}

\* the alteration changes the bytes the member decodes to, or leaves nothing
\* to decode
ChangesBytes(how) == how \in {"flip", "nothex", "missing", "notjson"}

TamperHex(h, how) ==
    CASE how = "flip"   -> ToHex(FlipBit(h.of))
      [] how = "upper"  -> HexText(h.of, "upper")
      [] how = "tail"   -> HexText(h.of, "tail")
      [] how = "nothex" -> HexText(EmptyBuf, "tail")
      [] how = "missing" -> Undefined

TamperEnvelope(text, member, how) ==
    IF how = "notjson" THEN NotJson
    ELSE [text EXCEPT ![member] = TamperHex(@, how)]

HEncrypt(p, k, iv) ==
    /\ hEnv' = encrypt(p, k, iv)
    /\ hSrc' = [op |-> "encrypt", plain |-> p, key |-> k, iv |-> iv]
    /\ hTamper' = None
    /\ hOut' = None
    /\ UNCHANGED << appVars, deriveVars, extraVars >>

HWrap(userKey, mk, iv) ==
    /\ hEnv' = encryptUserKey(userKey, mk, iv)
    /\ hSrc' = [op |-> "wrap", plain |-> userKey, key |-> mk, iv |-> iv]
    /\ hTamper' = None
    /\ hOut' = None
    /\ UNCHANGED << appVars, deriveVars, extraVars >>

HTamper(member, how) ==
    /\ hEnv # None /\ hEnv.kind = "ok" /\ hEnv.value.kind = "json"
    /\ hTamper = None
    /\ hEnv' = Ok(TamperEnvelope(hEnv.value, member, how))
    /\ hTamper' = [member |-> member, how |-> how]
    /\ hOut' = None
    /\ UNCHANGED << hSrc, appVars, deriveVars, extraVars >>

HDecrypt(k) ==
    /\ hSrc # None /\ hSrc.op = "encrypt" /\ hEnv.kind = "ok"
    /\ hOut' = [op |-> "decrypt", key |-> k, result |-> decrypt(hEnv.value, k)]
    /\ UNCHANGED << hEnv, hSrc, hTamper, appVars, deriveVars, extraVars >>

HUnwrap(mk) ==
    /\ hSrc # None /\ hSrc.op = "wrap" /\ hEnv.kind = "ok"
    /\ hOut' = [op |-> "unwrap", key |-> mk, result |-> decryptUserKey(hEnv.value, mk)]
    /\ UNCHANGED << hEnv, hSrc, hTamper, appVars, deriveVars, extraVars >>

CipherNext ==
    \/ \E p \in HarnessPlaintexts, k \in HarnessUserKeys, iv \in IVs : HEncrypt(p, k, iv)
    \/ \E k \in HarnessUserKeys, mk \in MasterKeys, iv \in IVs : HWrap(k, mk, iv)
    \/ \E m \in TamperMembers, how \in TamperKinds : HTamper(m, how)
    \/ \E k \in HarnessUserKeys : HDecrypt(k)
    \/ \E mk \in MasterKeys : HUnwrap(mk)

CipherSpec == Init /\ [][CipherNext]_vars

(***************************************************************************)
(* Derivation harness: deriveUserKey is called again and again; the last   *)
(* two calls are kept.                                                     *)
(***************************************************************************)
\* code units of passwords: a, NUL, an unpaired surrogate, U+FFFD
PasswordUnits == {97, 0, 55357, 65533}

\* short passwords, and two of 73 characters that differ in the last one
DerivePasswords ==
    TextsOver(PasswordUnits, MaxPwLen) \cup {LongPassword(97), LongPassword(0)}

Derive(password, salt) ==
    /\ dPrev' = dLast
    /\ dLast' = [password |-> password, salt |-> salt,
                 key |-> deriveUserKey(password, salt)]
    /\ UNCHANGED << appVars, harnessVars, extraVars >>

DeriveNext == \E password \in DerivePasswords, salt \in Salts : Derive(password, salt)

DeriveSpec == Init /\ [][DeriveNext]_vars

(***************************************************************************)
(* Properties of the field cipher and of the key envelope (CipherSpec).    *)
(***************************************************************************)
\* an envelope made by encrypt for a non-empty plaintext has been decrypted,
\* unaltered, with the key that made it
RoundTripCase ==
    /\ hOut # None /\ hOut.op = "decrypt"
    /\ hTamper = None
    /\ hEnv.kind = "ok"
    /\ hSrc.plain # << >>
    /\ hOut.key = hSrc.key

\* what decrypt gives for the unaltered envelope of a plaintext
Recovered(p) == Ok(UTF8Decode(UTF8Encode(p)))

\* C5 as stated: for every non-empty plaintext p and every user key k,
\* decrypt(encrypt(p, k), k) returns exactly p.
C5_RoundTripAnyPlaintext ==
    RoundTripCase => hOut.result = Ok(hSrc.plain)

\* C5 amended: for every non-empty plaintext p without an unpaired surrogate
\* and every 32-byte key k, decrypt(encrypt(p, k), k) returns exactly p; for
\* a plaintext with an unpaired surrogate it returns a different string, p
\* with U+FFFD in place of each unpaired surrogate.
C5_RoundTripWellFormed ==
    RoundTripCase =>
        /\ hOut.result.kind = "ok"
        /\ WellFormed(hSrc.plain) => hOut.result.value = hSrc.plain
        /\ ~WellFormed(hSrc.plain) =>
              /\ hOut.result.value # hSrc.plain
              /\ Len(hOut.result.value) = Len(hSrc.plain)
              /\ \A i \in 1..Len(hSrc.plain) :
                    \/ hOut.result.value[i] = hSrc.plain[i]
                    \/ hOut.result.value[i] = 65533

\* a two-character plaintext with a non-ASCII character has made the trip
C5_Witness ==
    /\ RoundTripCase
    /\ hSrc.plain = << 233, 97 >>
    /\ hOut.result = Ok(<< 233, 97 >>)

\* C6: for every user key and master key, decryptUserKey(encryptUserKey(
\* userKey)) under the same master key returns exactly userKey; the unwrap
\* is given the envelope and the master key only.
C6_WrapUnwrapInverse ==
    (/\ hOut # None /\ hOut.op = "unwrap"
     /\ hTamper = None
     /\ hEnv.kind = "ok"
     /\ hOut.key = hSrc.key)
    => hOut.result = Ok(hSrc.plain)

\* a derived key has been wrapped and unwrapped under the same master key
C6_Witness ==
    /\ hOut # None /\ hOut.op = "unwrap"
    /\ hTamper = None
    /\ hOut.key = hSrc.key
    /\ hSrc.plain.kind = "pbkdf2"
    /\ hOut.result = Ok(hSrc.plain)

\* C7: decrypting an envelope (of a field or of a user key) with a key other
\* than the one that made it fails with the decryption error and returns no
\* string and no key.
C7_KeyMismatchFails ==
    (/\ hOut # None
     /\ hEnv.kind = "ok" /\ hEnv.value.kind = "json"
     /\ hOut.key # hSrc.key)
    => /\ hOut.result.kind = "throw"
       /\ hOut.op = "decrypt" => hOut.result.message = "Failed to decrypt data"
       /\ hOut.op = "unwrap" => hOut.result.message = "Failed to decrypt user key"

\* an unaltered field envelope was given to decrypt with another 32-byte key
C7_Witness ==
    /\ hOut # None /\ hOut.op = "decrypt"
    /\ hTamper = None
    /\ hEnv.kind = "ok" /\ hEnv.value.kind = "json"
    /\ hOut.key # hSrc.key /\ ByteLength(hOut.key) = 32 /\ ByteLength(hSrc.key) = 32
    /\ hOut.result.kind = "throw"

\* the result of decrypting the envelope under test had it not been altered
Untampered ==
    IF hOut.op = "decrypt" THEN Recovered(hSrc.plain) ELSE Ok(hSrc.plain)

SameHmacKey(b1, b2) ==
    \/ b1 = b2
    \/ /\ Len(b1) <= 64 /\ Len(b2) <= 64
       /\ StripTrailingZeros(b1) = StripTrailingZeros(b2)

\* C9 as stated: the same (password, salt) gives the same key, and changing
\* the password or the salt changes the key.
C9_DeriveInjective ==
    (dPrev # None /\ dLast # None) =>
        (dPrev.key = dLast.key
            <=> (dPrev.password = dLast.password /\ dPrev.salt = dLast.salt))

\* C9 amended: the same (password, salt) gives the same key; changing the
\* salt changes the key; changing the password changes the key exactly when
\* the two passwords are different HMAC keys, that is when their UTF-8
\* encodings (an unpaired surrogate is encoded as U+FFFD) differ in more than
\* trailing NUL bytes; the call leaves the store alone.
C9_DeriveSensitive ==
    (dPrev # None /\ dLast # None) =>
        /\ (dPrev.password = dLast.password /\ dPrev.salt = dLast.salt)
              => dPrev.key = dLast.key
        /\ dPrev.salt # dLast.salt => dPrev.key # dLast.key
        /\ dPrev.salt = dLast.salt =>
              (dPrev.key = dLast.key
                  <=> SameHmacKey(UTF8Encode(dPrev.password), UTF8Encode(dLast.password)))
        /\ users = [e \in Emails |-> None] /\ people = [id \in PersonIds |-> None]

\* two calls have been compared whose salts differ and whose passwords "a"
\* and "aa" differ in more than trailing NULs
C9_Witness ==
    /\ dPrev # None /\ dLast # None
    /\ dPrev.salt # dLast.salt
    /\ dPrev.password = << 97 >> /\ dLast.password = << 97, 97 >>
    /\ dPrev.key # dLast.key

(***************************************************************************)
(* Properties of the account life cycle, checked under Spec                *)
(***************************************************************************)
\* the last request was a login
LastWasLogin == resp # None /\ resp.op = "login"

\* the user key that register returned for the account e
OriginalKey(e) == BufferFromHex(registered[e].userKey).value

\* the stored row id has text in it
HasText(id) == \E a \in Attrs : authored[id].plain[a].kind = "string"

\* every protected attribute of the stored row id decrypts under key to the
\* plaintext it was written from (an absent attribute is stored as NULL)
RowOpens(id, key) ==
    \A a \in Attrs :
        IF authored[id].plain[a].kind = "string"
        THEN /\ people[id].encrypted[a] # Null
             /\ decrypt(people[id].encrypted[a], key) = Ok(authored[id].plain[a].s)
        ELSE people[id].encrypted[a] = Null

\* C1: whatever logins and password resets have happened since an account
\* registered, the stored wrapped key still unwraps to the user key that
\* register returned, and every row written under that key still decrypts
\* under it
C1_UserKeyNeverChanges ==
    \A e \in Emails :
        registered[e] # None =>
            /\ users[e] # None
            /\ decryptUserKey(users[e].encryptedUserKey, masterKey) = Ok(OriginalKey(e))
            /\ \A id \in PersonIds :
                  (authored[id] # None /\ authored[id].key = OriginalKey(e))
                      => RowOpens(id, OriginalKey(e))

\* the account has written a row under its key, has then reset its password,
\* and has logged in since
C1_Witness ==
    \E e \in Emails, id \in PersonIds :
        /\ registered[e] # None /\ passwords[e].previous # None
        /\ LastWasLogin /\ resp.email = e /\ resp.status = 200
        /\ authored[id] # None /\ authored[id].key = OriginalKey(e)
        /\ authored[id].beforeReset /\ HasText(id)

\* C2: the key a successful login returns is the key obtained by unwrapping
\* the stored wrapped key with the master key
C2_LoginReturnsUnwrapped ==
    (LastWasLogin /\ resp.status = 200) =>
        BufferFromHex(resp.userKey)
            = decryptUserKey(users[resp.email].encryptedUserKey, masterKey)

\* C3: after a reset to a different password, a login with the old password
\* fails, and a login with the new password succeeds and returns a key under
\* which every row the account wrote before the reset decrypts
C3_ResetKeepsAccess ==
    \A e \in Emails :
        (/\ LastWasLogin /\ resp.email = e
         /\ passwords[e] # None /\ passwords[e].previous # None
         /\ passwords[e].previous # passwords[e].current) =>
            /\ resp.password = passwords[e].previous => resp.status = 401
            /\ resp.password = passwords[e].current =>
                  /\ resp.status = 200
                  /\ \A id \in PersonIds :
                        (/\ authored[id] # None /\ authored[id].email = e
                         /\ authored[id].beforeReset)
                            => RowOpens(id, BufferFromHex(resp.userKey).value)

\* C4: while the password of an account has not changed, a login with the
\* registration password returns the key that register returned, and the
\* rows written under the register key decrypt under the login key
C4_SamePasswordSameKey ==
    \A e \in Emails :
        (/\ LastWasLogin /\ resp.email = e /\ resp.status = 200
         /\ registered[e] # None /\ passwords[e].previous = None
         /\ resp.password = registered[e].password) =>
            /\ resp.userKey = registered[e].userKey
            /\ \A id \in PersonIds :
                  (authored[id] # None /\ authored[id].key = OriginalKey(e))
                      => RowOpens(id, BufferFromHex(resp.userKey).value)

\* a login with the registration password has succeeded on an account that
\* never reset its password and that has written a row with text in it
C4_Witness ==
    \E e \in Emails, id \in PersonIds :
        /\ LastWasLogin /\ resp.email = e /\ resp.status = 200
        /\ registered[e] # None /\ passwords[e].previous = None
        /\ resp.password = registered[e].password
        /\ authored[id] # None /\ authored[id].key = OriginalKey(e) /\ HasText(id)

\* C10: every failed login, whether the email is unknown or the password
\* does not match, has the same status and the same error message, and
\* returns no user key
C10_FailureIndistinguishable ==
    (LastWasLogin /\ resp.status # 200) =>
        /\ resp.status = 401
        /\ resp.error = "Invalid credentials"
        /\ resp.userKey = Undefined

(***************************************************************************)
(* Properties of the people and events routes, checked under DataSpec      *)
(***************************************************************************)
\* the routes that read or write protected fields of people and events
DataOps == {"listPeople", "getPerson", "createPerson", "updatePerson",
            "listEvents", "createEvent", "updateEvent"}

\* the last request was one of these
LastWasData == resp # None /\ resp.op \in DataOps

\* errors of a request that is turned away before it touches protected fields
EarlyErrors == {"Unauthorized", "Forbidden", "404 Not Found", "Person not found",
                "familyTreeId required", "personId required"}

\* C11: an authenticated request to a people or events route that carries no
\* X-User-Key header and reaches the protected fields is answered 400
\* 'Encryption key required' (so it neither succeeds nor writes)
C11_KeylessRejected ==
    (LastWasData /\ resp.key = Undefined /\ resp.error \notin EarlyErrors) =>
        /\ resp.status = 400
        /\ resp.error = "Encryption key required"

\* C12: an update of a person whose body leaves a protected attribute out
\* leaves the stored encrypted field of that attribute as it was
C12_PartialUpdateFrame ==
    [][\A id \in PersonIds, body \in DataBodies, h \in KeyHeaders, ivs \in DataIvs :
          (UpdatePerson(id, body, h, ivs) /\ resp'.status = 200) =>
              \A a \in Attrs :
                  body[a] = Undefined =>
                      people'[id].encrypted[a] = people[id].encrypted[a]]_vars

\* v is an envelope as encrypt writes it: the JSON text of the IV, of the
\* AES-256-GCM ciphertext of some plaintext under some 32-byte key and that
\* IV, and of the tag of that ciphertext
IsFieldEnvelope(v) ==
    /\ v.kind = "json"
    /\ v.data.kind = "hex" /\ v.data.of.kind = "gcm_ct"
    /\ LET ct == v.data.of IN
          /\ ByteLength(ct.key) = 32
          /\ v = JSONstringify([iv      |-> ToHex(ct.iv),
                                data    |-> ToHex(ct),
                                authTag |-> ToHex(GcmTag(ct.key, ct.iv, ct.pt))])

\* the last request was answered with a success
DataSucceeded == LastWasData /\ resp.status \in {200, 201}

\* C13: whatever the bodies of the create, update and import requests were,
\* every stored protected attribute of a people row is NULL or an envelope
\* written by encrypt, and every stored protected attribute of an events row
\* is NULL, '' or such an envelope
C13_NoPlaintextStored ==
    /\ \A id \in PersonIds :
          people[id] # None =>
              \A a \in Attrs :
                  \/ people[id].encrypted[a] = Null
                  \/ IsFieldEnvelope(people[id].encrypted[a])
    /\ \A id \in EventIds :
          events[id] # None =>
              \/ events[id].encryptedDate \in {Null, EmptyString}
              \/ IsFieldEnvelope(events[id].encryptedDate)

\* a person has been stored from a body that carried a first name and a value
\* in encryptedNotes
C13_Witness ==
    /\ DataSucceeded /\ resp.op \in {"createPerson", "updatePerson"}
    /\ \E id \in PersonIds :
          /\ resp.body[id] # None
          /\ resp.body[id]["encryptedNotes"] # Undefined
          /\ people[id].encrypted["notes"] = Null
          /\ IsFieldEnvelope(people[id].encrypted["firstName"])

\* the encrypted* members of the objects in responses
EncryptedMembers == {EncName(a) : a \in Attrs} \cup {"encryptedDate"}

\* C14: no member of a successful response of a people or events route is an
\* envelope; in a read response every protected attribute is a string or
\* null and the encrypted* members are not there
C14_NoEnvelopeReturned ==
    DataSucceeded =>
        \A i \in DOMAIN resp.body :
            resp.body[i] # None =>
                \A f \in DOMAIN resp.body[i] :
                    /\ resp.body[i][f].kind # "json"
                    /\ resp.op \in {"listPeople", "getPerson", "listEvents"} =>
                          IF f \in EncryptedMembers
                          THEN resp.body[i][f] = Undefined
                          ELSE resp.body[i][f].kind \in {"string", "null"}

\* a person whose first name is stored as an envelope has been read
C14_Witness ==
    /\ DataSucceeded /\ resp.op = "getPerson"
    /\ \E id \in PersonIds :
          /\ resp.body[id] # None
          /\ resp.body[id]["firstName"].kind = "string"
          /\ people[id].encrypted["firstName"].kind = "json"

\* some stored field of the person id does not decrypt under key
RowFails(id, key) ==
    \E a \in Attrs :
        /\ Truthy(people[id].encrypted[a])
        /\ decrypt(people[id].encrypted[a], key).kind = "throw"

\* C15: when a list request meets a stored field that does not decrypt under
\* the key of the request, the request is not answered with a success and
\* the response carries no record at all
C15_BatchFailsWhole ==
    [][/\ \A t \in TreeIds, h \in KeyHeaders :
             (/\ resp' # None /\ resp'.op = "listPeople"
              /\ \E id \in PersonIds :
                    /\ people[id] # None /\ people[id].familyTreeId = t
                    /\ RowFails(id, RequestKey(h))
              /\ ListPeople(t, h))
                => (resp'.status \notin {200, 201} /\ resp'.body = None)
       /\ \A personId \in PersonIds, h \in KeyHeaders :
             (/\ resp' # None /\ resp'.op = "listEvents"
              /\ \E id \in EventIds :
                    /\ events[id] # None /\ events[id].personId = personId
                    /\ Truthy(events[id].encryptedDate)
                    /\ decrypt(events[id].encryptedDate, RequestKey(h)).kind = "throw"
              /\ ListEvents(personId, h))
                => (resp'.status \notin {200, 201} /\ resp'.body = None)]_vars

\* a list of two people has failed under a key that opens one of them and
\* not the other
C15_Witness ==
    /\ LastWasData /\ resp.op = "listPeople" /\ resp.status = 500
    /\ resp.key # Undefined
    /\ \E id1, id2 \in PersonIds :
          /\ people[id1] # None /\ people[id2] # None
          /\ RowFails(id1, resp.key)
          /\ ~RowFails(id2, resp.key)
          /\ \E a \in Attrs : Truthy(people[id2].encrypted[a])

\* C16: encrypt gives '' for an empty or absent value and decrypt gives ''
\* for ''; encryptPerson stores NULL for an attribute that is empty or not
\* there and decryptPerson gives null for a stored NULL; an event stores NULL
\* or '' for an empty or absent date and reads it back as null; in no case
\* is an envelope written for them
C16_AbsenceKept ==
    /\ \A k \in {OtherUserKey, Undefined}, iv \in IVs :
          /\ encrypt(<< >>, k, iv) = Ok(EmptyString)
          /\ encryptValue(Undefined, k, iv) = Ok(EmptyString)
          /\ encryptValue(Null, k, iv) = Ok(EmptyString)
          /\ decrypt(EmptyString, k) = Ok(<< >>)
    /\ (DataSucceeded /\ resp.op \in {"createPerson", "updatePerson"}) =>
          \A id \in PersonIds :
              resp.body[id] # None =>
                  \A a \in Attrs :
                      ~Truthy(resp.body[id][a]) => people[id].encrypted[a] = Null
    /\ (DataSucceeded /\ resp.op \in {"getPerson", "listPeople"}) =>
          \A id \in PersonIds :
              resp.body[id] # None =>
                  \A a \in Attrs :
                      ~Truthy(people[id].encrypted[a]) => resp.body[id][a] = Null
    /\ (DataSucceeded /\ resp.op = "createEvent") =>
          \A id \in EventIds :
              ~Truthy(resp.body[id]["date"]) => events[id].encryptedDate = Null
    /\ (DataSucceeded /\ resp.op = "updateEvent") =>
          \A id \in EventIds :
              resp.body[id]["date"] = Str(<< >>) => events[id].encryptedDate = EmptyString
    /\ (DataSucceeded /\ resp.op = "listEvents") =>
          \A id \in EventIds :
              (resp.body[id] # None /\ ~Truthy(events[id].encryptedDate))
                  => resp.body[id]["date"] = Null

\* a person stored from a body with an empty first name and some notes has
\* been read back
C16_Witness ==
    /\ DataSucceeded /\ resp.op = "getPerson"
    /\ \E id \in PersonIds :
          /\ resp.body[id] # None
          /\ authored[id].plain["firstName"] = Str(<< >>)
          /\ people[id].encrypted["firstName"] = Null
          /\ resp.body[id]["firstName"] = Null
          /\ resp.body[id]["notes"].kind = "string"

(***************************************************************************)
(* Startup.  start.sh runs the migrations and then src/index.ts, which     *)
(* mounts the routes and serves; the encryption service is built by the    *)
(* first request that calls getEncryptionService.  env is the value of     *)
(* MASTER_ENCRYPTION_KEY, masterKey the key of the singleton (None while    *)
(* there is no singleton).                                                  *)
(***************************************************************************)
\* new EncryptionService(masterKeyHex): the key buffer of the service
EncryptionServiceConstructor(masterKeyHex) ==
    IF masterKeyHex.kind \in {"undefined", "empty"} \/ StringLength(masterKeyHex) # 64
    THEN Throw("Master key must be 32 bytes (64 hex characters)")
    ELSE BufferFromHex(masterKeyHex)

\* mutant of getEncryptionService: no singleton, every call builds a service
\* from the environment variable as it is then
getEncryptionServiceNoSingleton(service, masterKeyHex) ==
    IF masterKeyHex.kind \in {"undefined", "empty"}
    THEN Throw("MASTER_ENCRYPTION_KEY environment variable is required")
    ELSE EncryptionServiceConstructor(masterKeyHex)

\* getEncryptionService() when the singleton holds service and the
\* environment variable is masterKeyHex
getEncryptionService(service, masterKeyHex) ==
    IF service # None THEN Ok(service)
    ELSE IF masterKeyHex.kind \in {"undefined", "empty"}
         THEN Throw("MASTER_ENCRYPTION_KEY environment variable is required")
    ELSE EncryptionServiceConstructor(masterKeyHex)

\* values of MASTER_ENCRYPTION_KEY: not set, empty, the hex digits of 32
\* bytes, the hex digits of 16 bytes, 64 characters that are no hex digits
EnvConfigs ==
    {Undefined, EmptyString, ToHex(DeployedMasterKey),
     ToHex(RandomBytes(110, 16)), NonHexText(64)}

BootInit ==
    /\ env \in EnvConfigs
    /\ running = FALSE
    /\ masterKey = None
    /\ InitRest

\* start.sh: bun run migrate; bun run src/index.ts
BootStart ==
    /\ ~running
    /\ running' = TRUE
    /\ UNCHANGED << appVars, harnessVars, deriveVars, dataVars, env, ivVars,
                    procVars >>

\* GET /health
Health ==
    /\ running
    /\ resp' = Response("health", [email |-> "", password |-> Undefined],
                        200, "", Undefined)
    /\ UNCHANGED << serverVars, localStorage, historyVars, harnessVars,
                    deriveVars, extraVars >>

\* POST /api/auth/register served by the started process
ServeRegister(email, password, salt, iv) ==
    LET data == [email |-> email, password |-> password]
        svc  == getEncryptionService(masterKey, env)
    IN  /\ running
        /\ IF \/ users[email] # None
              \/ bcryptHash(password, BcryptRounds).kind = "throw"
           THEN /\ RegisterWith(masterKey, email, password, salt, iv)
                /\ UNCHANGED masterKey
           ELSE IF svc.kind = "throw"
           THEN /\ resp' = Response("register", data, 400, svc.message, Undefined)
                /\ UNCHANGED << serverVars, localStorage, historyVars,
                                harnessVars, deriveVars, extraVars >>
           ELSE /\ masterKey' = svc.value
                /\ RegisterWith(svc.value, email, password, salt, iv)

BootNext ==
    \/ BootStart
    \/ Health
    \/ \E email \in Emails, password \in PasswordInputs, salt \in Salts, iv \in IVs :
          ServeRegister(email, password, salt, iv)

BootSpec == BootInit /\ [][BootNext]_vars

\* MASTER_ENCRYPTION_KEY is there and is the hex text of exactly 32 bytes
MasterSecretWellFormed ==
    /\ env.kind = "hex" /\ env.form # "tail"
    /\ ByteLength(env.of) = 32

\* C17: the process runs, and has answered a request, only when the master
\* secret is configured and is exactly 32 bytes
C17_RefusesToRun ==
    (running \/ resp # None) => MasterSecretWellFormed

\* the second half of C17 alone: a stored wrapped key is never written under
\* anything but the configured 32-byte secret
NoFallbackKey ==
    \A e \in Emails :
        users[e] # None =>
            /\ MasterSecretWellFormed
            /\ users[e].encryptedUserKey.data.of.key = env.of

(***************************************************************************)
(* The symbolic attacker of the persisted store.                           *)
(***************************************************************************)
\* the byte strings an envelope is made of
EnvelopeTerms(v) ==
    IF v.kind = "json" THEN {v.iv.of, v.data.of, v.authTag.of} ELSE {}

\* everything that can be read from the users and people tables
StoreTerms ==
    UNION {IF users[e] = None THEN {}
           ELSE {users[e].passwordHash, users[e].encryptionSalt.of}
                \cup EnvelopeTerms(users[e].encryptedUserKey) : e \in Emails}
    \cup UNION {IF people[id] = None THEN {}
                ELSE UNION {EnvelopeTerms(people[id].encrypted[a]) : a \in Attrs} :
                id \in PersonIds}

\* a password the attacker tries; no account uses it
AttackerPasswords == {<< 98 >>}

\* one step of the attacker: open the ciphertexts whose key is known and
\* derive keys from the known passwords and the known 32-byte salts
Analz(K) ==
    K \cup {ct.pt : ct \in {t \in K : t.kind = "gcm_ct" /\ t.key \in K}}
      \cup {deriveUserKey(pw, salt) :
               pw \in AttackerPasswords,
               salt \in {t \in K : t.kind = "random" /\ t.len = 32}}

\* what the attacker of the store can get to know
AttackerKnowledge == Analz(Analz(Analz(StoreTerms)))

\* the master secret, the user keys and the protected plaintexts
Secrets ==
    {masterKey}
    \cup {OriginalKey(e) : e \in {x \in Emails : registered[x] # None}}
    \cup UNION {IF authored[id] = None THEN {}
                ELSE {authored[id].key}
                     \cup {Bytes(UTF8Encode(authored[id].plain[a].s)) :
                              a \in {x \in Attrs : authored[id].plain[x].kind = "string"}} :
                id \in PersonIds}

\* C18: nothing the attacker can work out from the persisted values alone,
\* by opening ciphertexts with the keys it has and deriving keys from the
\* passwords it has, is the master secret, a user key or a protected
\* plaintext
C18_StoreDisclosesNothing == AttackerKnowledge \cap Secrets = {}

\* an account and a person with text are stored, and the attacker has the
\* salt, the envelopes and a key derived from its own password
C18_Witness ==
    \E e \in Emails, id \in PersonIds :
        /\ users[e] # None /\ people[id] # None
        /\ authored[id] # None /\ HasText(id)
        /\ users[e].encryptedUserKey.data.of \in AttackerKnowledge
        /\ deriveUserKey(<< 98 >>, users[e].encryptionSalt.of) \in AttackerKnowledge
        /\ \E a \in Attrs :
              /\ people[id].encrypted[a].kind = "json"
              /\ people[id].encrypted[a].data.of \in AttackerKnowledge

\* the byte strings that a stored text spells out
TextTerms(v) ==
    IF v.kind = "json" THEN {v.iv.of, v.data.of, v.authTag.of}
    ELSE IF v.kind = "hex" THEN {v.of}
    ELSE {}

\* what the server holds between two requests: the key of the encryption
\* service and the columns of the tables
ServerTerms ==
    {masterKey}
    \cup UNION {IF users[e] = None THEN {}
                ELSE {users[e].passwordHash} \cup TextTerms(users[e].encryptionSalt)
                     \cup TextTerms(users[e].encryptedUserKey) : e \in Emails}
    \cup UNION {IF people[id] = None THEN {}
                ELSE UNION {TextTerms(people[id].encrypted[a]) : a \in Attrs} :
                id \in PersonIds}
    \cup UNION {IF events[id] = None THEN {}
                ELSE TextTerms(events[id].encryptedDate) : id \in EventIds}

\* the user keys that exist: those of the accounts and those that requests
\* have carried
UserKeys ==
    {OriginalKey(e) : e \in {x \in Emails : registered[x] # None}}
    \cup {authored[id].key :
             id \in {x \in PersonIds : authored[x] # None /\ authored[x].key # Undefined}}

\* C19: between requests the server holds no user key in clear: the users
\* row holds the key of the account wrapped under the master key and no
\* column and no variable of the server is a user key; a read request gets
\* plaintext only of the fields that decrypt under the key the request
\* itself carries
C19_NoUserKeyKept ==
    /\ UserKeys \cap ServerTerms = {}
    /\ \A e \in Emails :
          (users[e] # None /\ registered[e] # None) =>
              /\ users[e].encryptedUserKey.kind = "json"
              /\ decryptUserKey(users[e].encryptedUserKey, masterKey) = Ok(OriginalKey(e))
    /\ (DataSucceeded /\ resp.op \in {"getPerson", "listPeople"}) =>
          \A id \in PersonIds :
              resp.body[id] # None =>
                  \A a \in Attrs :
                      resp.body[id][a].kind = "string" =>
                          decrypt(people[id].encrypted[a], resp.key) = Ok(resp.body[id][a].s)
    /\ (DataSucceeded /\ resp.op = "listEvents") =>
          \A id \in EventIds :
              (resp.body[id] # None /\ resp.body[id]["date"].kind = "string") =>
                  decrypt(events[id].encryptedDate, resp.key) = Ok(resp.body[id]["date"].s)

\* after a person was stored under the key of the account, a read request
\* that carried no key has failed
C19_Witness ==
    /\ LastWasData /\ resp.op = "getPerson"
    /\ resp.key = Undefined /\ resp.status = 500
    /\ \E e \in Emails, id \in PersonIds :
          /\ registered[e] # None /\ people[id] # None /\ authored[id] # None
          /\ authored[id].key = OriginalKey(e)
          /\ \E a \in Attrs : people[id].encrypted[a].kind = "json"

(***************************************************************************)
(* The IVs of the envelopes.  Each draw of crypto.randomBytes(16) gives a  *)
(* value no earlier draw gave (a collision of two 128-bit random values is *)
(* left out); drawn counts the draws of the process and issued records,    *)
(* for every envelope an encryption call returned, the call, the key and   *)
(* the IV the envelope carries.                                            *)
(***************************************************************************)
\* the draws the model follows
MaxDraws == 5

\* crypto.randomBytes(16) when n values have been drawn before
randomBytes16(n) == RandomBytes(n + 1, 16)

\* the record of the envelope v that call number n returned under key
Issue(n, key, v) ==
    IF v.kind = "json" THEN {[n |-> n, key |-> key, iv |-> v.iv.of]} ELSE {}

\* the keys of the field cipher in these calls
IvKeys == {OtherUserKey, deriveUserKey(<< 97 >>, AccountSalt(DataUser))}

\* the persons given to encryptPerson: both attributes, the first name only
IvBodies ==
    {b \in DataBodies : b["firstName"] = Str(<< 233, 97 >>) /\ b["encryptedNotes"] = Undefined}

\* encryptionService.encrypt(data, userKey)
IvEncrypt(data, userKey) ==
    LET r == encrypt(data, userKey, randomBytes16(drawn)) IN
    /\ drawn < MaxDraws
    /\ r.kind = "ok"
    /\ drawn' = IF r.value.kind = "json" THEN drawn + 1 ELSE drawn
    /\ issued' = issued \cup Issue(drawn, userKey, r.value)
    /\ UNCHANGED << appVars, harnessVars, deriveVars, dataVars, bootVars,
                    procVars >>

\* encryptionService.encryptUserKey(userKey)
IvEncryptUserKey(userKey) ==
    LET r == encryptUserKey(userKey, masterKey, randomBytes16(drawn)) IN
    /\ drawn < MaxDraws
    /\ r.kind = "ok"
    /\ drawn' = drawn + 1
    /\ issued' = issued \cup Issue(drawn, masterKey, r.value)
    /\ UNCHANGED << appVars, harnessVars, deriveVars, dataVars, bootVars,
                    procVars >>

\* encryptionService.encryptPerson(person, userKey): one encrypt call for
\* each attribute that has a value, first name first
IvEncryptPerson(person, userKey) ==
    LET second == IF Truthy(person["firstName"]) THEN drawn + 1 ELSE drawn
        at(a)  == IF a = "firstName" THEN drawn ELSE second
        r == encryptPerson(person, userKey, [a \in Attrs |-> randomBytes16(at(a))])
        calls == Cardinality({a \in Attrs : Truthy(person[a])})
    IN  /\ drawn + calls <= MaxDraws
        /\ r.kind = "ok"
        /\ drawn' = drawn + calls
        /\ issued' = issued \cup UNION {Issue(at(a), userKey, r.value[a]) : a \in Attrs}
        /\ UNCHANGED << appVars, harnessVars, deriveVars, dataVars, bootVars,
                    procVars >>

IvNext ==
    \/ \E data \in {<< >>, << 233, 97 >>, << 50 >>}, userKey \in IvKeys :
          IvEncrypt(data, userKey)
    \/ \E userKey \in IvKeys : IvEncryptUserKey(userKey)
    \/ \E person \in IvBodies, userKey \in IvKeys : IvEncryptPerson(person, userKey)

IvSpec == Init /\ [][IvNext]_vars

\* C20: every envelope that encrypt, encryptUserKey or encryptPerson has
\* returned carries the IV drawn inside its own call, and no two envelopes
\* issued under the same key carry the same IV
C20_NoIvReuse ==
    /\ \A x \in issued : x.iv = randomBytes16(x.n)
    /\ \A x, y \in issued : (x.n # y.n /\ x.key = y.key) => x.iv # y.iv

\* two envelopes have been issued under one user key and two under the
\* master key
C20_Witness ==
    /\ \E x, y \in issued : x.n # y.n /\ x.key = y.key /\ x.key \in IvKeys
    /\ \E x, y \in issued : x.n # y.n /\ x.key = masterKey /\ y.key = masterKey

(***************************************************************************)
(* The access specification: two accounts, one tree and its copy, and      *)
(* every route that reads or writes the content of a tree.                 *)
(***************************************************************************)
\* the password of both accounts
AccessPassword == Str(<< 97 >>)

\* the X-User-Key header of the browser: the key of the session; without a
\* session, no header or some key
SessionHeaders ==
    IF localStorage = None THEN {Undefined, ToHex(OtherUserKey)}
    ELSE {localStorage.userKey}

\* the body of the people routes: a first name
AccessBody ==
    CHOOSE b \in DataBodies :
        /\ b["firstName"] = Str(<< 233, 97 >>)
        /\ b["notes"] = Undefined /\ b["encryptedNotes"] = Undefined

\* the body of the events routes: a date of the person p1
AccessEvent == [personId |-> "p1", date |-> Str(<< 50 >>)]

\* logout of AuthContext: the browser forgets the tokens and the key
Logout ==
    /\ localStorage # None
    /\ localStorage' = None
    /\ UNCHANGED << serverVars, resp, historyVars, harnessVars, deriveVars, extraVars >>

AccessNext ==
    \/ \E e \in Emails : Register(e, AccessPassword, AccountSalt(e), RandomBytes(1, 16))
    \/ Logout
    \/ \E e \in Emails : Login(e, AccessPassword)
    \/ CreateTree("t1", "Smith")
    \/ \E e \in Emails : GrantPermission("t1", e, "viewer")
    \/ \E id \in FreeIds(people, PersonIds), h \in SessionHeaders :
          DuplicateTree("t1", "t2", id, h)
    \/ \E h \in SessionHeaders : ListPeople("t1", h)
    \/ \E h \in SessionHeaders : GetPerson("p1", h)
    \/ \E id \in FreeIds(people, PersonIds), h \in SessionHeaders, ivs \in DataIvs :
          CreatePerson(id, AccessBody, "t1", h, ivs)
    \/ \E h \in SessionHeaders, ivs \in DataIvs : UpdatePerson("p1", AccessBody, h, ivs)
    \/ \E cascade \in BOOLEAN : DeletePerson("p1", cascade)
    \/ \E h \in SessionHeaders, ivs \in DataIvs : ImportWith(h, "p1", AccessBody, "t1", ivs)
    \/ \E h \in SessionHeaders : ListEvents("p1", h)
    \/ \E id \in FreeIds(events, EventIds), h \in SessionHeaders :
          CreateEvent(id, AccessEvent, h, RandomBytes(1, 16))
    \/ \E h \in SessionHeaders : UpdateEvent("e1", AccessEvent, h, RandomBytes(2, 16))
    \/ DeleteEvent("e1")
    \/ ListRelationships("t1")
    \/ \E id \in FreeIds(relationships, RelIds) : CreateRelationship(id, "t1", "parent")
    \/ UpdateRelationship("r1", "spouse")
    \/ DeleteRelationship("r1")

AccessSpec == Init /\ [][AccessNext]_vars

\* the routes that read or write the content of a tree
ContentOps ==
    DataOps \cup {"import", "deletePerson", "deleteEvent", "listRelationships",
                  "createRelationship", "updateRelationship", "deleteRelationship"}

\* the tree a stored event belongs to: the tree of its person
EventTree(ev) ==
    IF people[ev.personId] = None THEN "" ELSE people[ev.personId].familyTreeId

\* the trees whose people, events or relationships a step has written: the
\* tree of a row before the step and the tree of the row after it
TreesWritten ==
    {people[id].familyTreeId : id \in {x \in PersonIds : people[x] # None /\ people'[x] # people[x]}}
    \cup {people'[id].familyTreeId : id \in {x \in PersonIds : people'[x] # None /\ people'[x] # people[x]}}
    \cup {EventTree(events[id]) : id \in {x \in EventIds : events[x] # None /\ events'[x] # events[x]}}
    \cup {EventTree(events'[id]) : id \in {x \in EventIds : events'[x] # None /\ events'[x] # events[x]}}
    \cup {relationships[id].familyTreeId :
             id \in {x \in RelIds : relationships[x] # None /\ relationships'[x] # relationships[x]}}
    \cup {relationships'[id].familyTreeId :
             id \in {x \in RelIds : relationships'[x] # None /\ relationships'[x] # relationships[x]}}

\* the trees whose people a successful read has returned
TreesRead ==
    IF resp'.status = 200 /\ resp'.op \in {"getPerson", "listPeople"}
    THEN {people[id].familyTreeId : id \in {x \in PersonIds : resp'.body[x] # None}}
    ELSE {}

\* the step is a request to a content route by a signed-in user
ContentRequest ==
    /\ resp' # None /\ resp'.op \in ContentOps
    /\ localStorage # None /\ localStorage' = localStorage

\* the trees that exist
ExistingTrees == {t \in AllTreeIds : familyTrees[t] # None}

\* C21: a request reads or writes the people, events or relationships of an
\* existing tree only if its user owns the tree or has a permission row for
\* it; a request that is not answered with a success writes nothing
C21_PermissionsEnforced ==
    [][ContentRequest =>
          /\ \A t \in (TreesWritten \cup TreesRead) \cap ExistingTrees :
                checkAccessOrOwner(TokenUser, t)
          /\ resp'.status \notin {200, 201} =>
                UNCHANGED << people, events, relationships >>]_vars

\* the roles of a user on a tree: those of its permission rows, and owner
\* for the owner of the tree
RolesOf(userId, familyTreeId) ==
    {perm.role : perm \in {x \in permissions :
                              x.userId = userId /\ x.familyTreeId = familyTreeId}}
    \cup (IF familyTrees[familyTreeId] # None /\ familyTrees[familyTreeId].ownerId = userId
          THEN {"owner"} ELSE {})

\* C22: a request writes the people, events or relationships of a tree only
\* if the role of its user on that tree is owner or editor; a viewer reads
\* only
C22_ViewerReadsOnly ==
    [][ContentRequest =>
          \A t \in TreesWritten \cap ExistingTrees :
              "viewer" \in RolesOf(TokenUser, t) =>
                  RolesOf(TokenUser, t) \cap {"owner", "editor"} # {}]_vars

\* the routes behind the authenticate middleware
ProtectedOps == ContentOps \cup {"createTree", "duplicateTree"}

\* C28: a request to a people, events, relationships, family-trees or import
\* route that carries no valid access token is answered 401 and writes
\* nothing, with or without an X-User-Key header
C28_TokenRequired ==
    [][(localStorage = None /\ resp' # None /\ resp' # resp /\ resp'.op \in ProtectedOps) =>
          /\ resp'.status = 401
          /\ UNCHANGED << users, people, events, relationships, familyTrees,
                          permissions >>]_vars

\* after a sign-out, with people stored, a request that carried a user key
\* and no token was answered 401
C28_Witness ==
    /\ localStorage = None
    /\ \E id \in PersonIds : people[id] # None
    /\ resp # None /\ resp.op = "getPerson"
    /\ resp.status = 401 /\ resp.key = OtherUserKey

\* the stored attribute a of person id opens under the key of the request
\* that last wrote the row and gives the text that request wrote
OpensForLastWriter(id, a) ==
    /\ authored[id].key # Undefined
    /\ authored[id].plain[a].kind = "string"
    /\ decrypt(people[id].encrypted[a], authored[id].key) = Ok(authored[id].plain[a].s)

\* C24: every stored person attribute that is not absent is encrypted under
\* the user key carried by the request that last wrote the row and decrypts
\* under that key to the plaintext of that row
C24_LastWriterKey ==
    \A id \in PersonIds :
        (people[id] # None /\ authored[id] # None) =>
            \A a \in Attrs :
                IsFieldEnvelope(people[id].encrypted[a]) => OpensForLastWriter(id, a)

\* the row of account e is what register writes for the request the response
\* r answers: the hash of its password, a 32-byte salt, and the key derived
\* from the password and that salt wrapped under the master key; and r
\* carries that key, which is the unwrap of the stored wrapped key
RegisteredRow(e, r, table) ==
    LET user == table[e]
        salt == BufferFromHex(user.encryptionSalt).value
        userKey == deriveUserKey(r.password.s, salt)
    IN  /\ r.op = "register" /\ r.status = 200 /\ r.email = e
        /\ user.passwordHash = bcryptHash(r.password, BcryptRounds).value
        /\ ByteLength(salt) = 32
        /\ \E iv \in IVs :
              user.encryptedUserKey = encryptUserKey(userKey, masterKey, iv).value
        /\ decryptUserKey(user.encryptedUserKey, masterKey) = Ok(userKey)
        /\ r.userKey = ToHex(userKey)

\* C23: a register for a new email adds exactly one row to the users table,
\* with the password hash, the salt generateSalt gave at this registration
\* and the key derived from password and salt wrapped under the master key,
\* and returns that key, which is the unwrap of the stored wrapped key; no
\* step changes the salt of an account
C23_RegisterPersists ==
    [][\A e \in Emails :
          /\ users[e] # None =>
                /\ users'[e] # None
                /\ users'[e].encryptionSalt = users[e].encryptionSalt
          /\ (users[e] = None /\ users'[e] # None) =>
                /\ \A o \in Emails \ {e} : users'[o] = users[o]
                /\ users'[e].encryptionSalt = ToHex(AccountSalt(e))
                /\ RegisteredRow(e, resp', users')]_vars

\* an account was registered, its password was reset afterwards, and its
\* salt is still the one of the registration
C23_Witness ==
    \E e \in Emails :
        /\ users[e] # None /\ registered[e] # None /\ passwords[e] # None
        /\ passwords[e].previous # None
        /\ users[e].encryptionSalt = ToHex(AccountSalt(e))
        /\ decryptUserKey(users[e].encryptedUserKey, masterKey).kind = "ok"

\* the alterations that leave an envelope malformed: a member that is not
\* (only) hex digits, a member that is missing, text that is no JSON
MalformKinds == {"tail", "nothex", "missing", "notjson"}

\* C25: decrypt and decryptUserKey of a malformed envelope (text that does
\* not parse, a member that is not valid hex, a missing iv, data or authTag)
\* fail with an error and return no plaintext and no key
C25_MalformedFails ==
    (hOut # None /\ hTamper # None /\ hTamper.how \in MalformKinds) =>
        hOut.result.kind = "throw"

(***************************************************************************)
(* Operation of a deployment: the process is started and stopped, the      *)
(* value of MASTER_ENCRYPTION_KEY is changed, accounts register and log    *)
(* in, and the wrapped key of a stored account is altered in the database. *)
(***************************************************************************)
\* the passwords sent to the login route: the one of the account and a
\* wrong one
OpsLoginPasswords == {AccessPassword, Str(LongPassword(97))}

\* the process exits: the singleton of getEncryptionService is gone, the
\* database stays
Stop ==
    /\ running
    /\ running' = FALSE
    /\ masterKey' = None
    /\ UNCHANGED << users, people, localStorage, resp, historyVars, harnessVars,
                    deriveVars, dataVars, env, ivVars, procVars >>

\* MASTER_ENCRYPTION_KEY is set to another value
ChangeEnv(v) ==
    /\ v # env
    /\ env' = v
    /\ UNCHANGED << appVars, harnessVars, deriveVars, dataVars, running, ivVars,
                    procVars >>

\* the encryptedUserKey column of an account is altered in the database
CorruptWrappedKey(email, member, how) ==
    /\ users[email] # None
    /\ users[email].encryptedUserKey \in
          {encryptUserKey(BufferFromHex(registered[email].userKey).value, mk, iv).value :
              mk \in MasterKeys, iv \in IVs}
    /\ users' = [users EXCEPT ![email].encryptedUserKey = TamperEnvelope(@, member, how)]
    /\ UNCHANGED << masterKey, people, localStorage, resp, historyVars, harnessVars,
                    deriveVars, extraVars >>

\* POST /api/auth/login served by the started process
ServeLogin(email, password) ==
    LET data == [email |-> email, password |-> password]
        svc  == getEncryptionService(masterKey, env)
        user == users[email]
    IN  /\ running
        /\ IF user = None
           THEN LoginWith(masterKey, email, password) /\ UNCHANGED masterKey
           ELSE IF bcryptCompare(password, user.passwordHash) # Ok(TRUE)
           THEN LoginWith(masterKey, email, password) /\ UNCHANGED masterKey
           ELSE IF svc.kind = "throw"
           THEN /\ resp' = Response("login", data, 401, svc.message, Undefined)
                /\ UNCHANGED << serverVars, localStorage, historyVars,
                                harnessVars, deriveVars, extraVars >>
           ELSE /\ masterKey' = svc.value
                /\ LoginWith(svc.value, email, password)

OpsNext ==
    \/ BootStart
    \/ Stop
    \/ \E v \in EnvConfigs \cup {ToHex(k) : k \in MasterKeys} : ChangeEnv(v)
    \/ \E e \in Registrants, iv \in IVs :
          ServeRegister(e, AccessPassword, AccountSalt(e), iv)
    \/ \E e \in Registrants, pw \in OpsLoginPasswords : ServeLogin(e, pw)
    \/ \E e \in Registrants, m \in TamperMembers,
          how \in {"flip", "tail", "missing", "notjson"} :
          CorruptWrappedKey(e, m, how)

OpsSpec == BootInit /\ [][OpsNext]_vars

\* C26: once the encryption service exists its master key stays the same
\* until the process exits, whatever MASTER_ENCRYPTION_KEY is set to
\* afterwards and however often getEncryptionService is called; every key
\* wrapped is wrapped under that 32-byte key and every key unwrapped is
\* unwrapped under it
C26_MasterKeyFixed ==
    [][/\ (masterKey # None /\ running') => masterKey' = masterKey
       /\ \A e \in Emails :
             (users[e] = None /\ users'[e] # None) =>
                 /\ masterKey' # None /\ ByteLength(masterKey') = 32
                 /\ users'[e].encryptedUserKey.data.of.key = masterKey'
       /\ (resp' # None /\ resp' # resp /\ resp'.op = "login" /\ resp'.status = 200) =>
             /\ masterKey' # None
             /\ decryptUserKey(users[resp'.email].encryptedUserKey, masterKey').kind = "ok"]_vars

\* the service holds a key, the variable has been set to the hex text of
\* another 32-byte key since, and a login has been served after that
C26_Witness ==
    /\ running /\ masterKey # None
    /\ env.kind = "hex" /\ ByteLength(env.of) = 32 /\ env.of # masterKey
    /\ resp # None /\ resp.op = "login" /\ resp.status = 200
    /\ users[resp.email].encryptedUserKey.data.of.key = masterKey

\* the stored wrapped key of account e does not unwrap under the master key
\* of the service a request gets now
CannotUnwrap(e) ==
    LET svc == getEncryptionService(masterKey, env) IN
    IF svc.kind = "throw" THEN TRUE
    ELSE decryptUserKey(users[e].encryptedUserKey, svc.value).kind = "throw"

\* C29: a login with the right password for an account whose stored wrapped
\* key does not unwrap under the current master key (altered in the store,
\* or wrapped under another master key) is answered with an error and
\* returns no token and no user key
C29_LoginFailsWithoutUnwrap ==
    [][\A e \in Registrants, pw \in OpsLoginPasswords :
          (/\ users[e] # None
           /\ bcryptCompare(pw, users[e].passwordHash) = Ok(TRUE)
           /\ CannotUnwrap(e)
           /\ ServeLogin(e, pw)) =>
              /\ resp'.op = "login" /\ resp'.status = 401 /\ resp'.error # ""
              /\ resp'.userKey = Undefined
              /\ localStorage' = localStorage]_vars

\* a login with the right password was refused because the stored wrapped
\* key, written under another master key than the one of the running
\* process, did not unwrap
C29_Witness ==
    /\ running /\ masterKey # None /\ ByteLength(masterKey) = 32
    /\ resp # None /\ resp.op = "login" /\ resp.status = 401
    /\ resp.error = "Encryption key verification failed"
    /\ users[resp.email] # None
    /\ bcryptCompare(resp.password, users[resp.email].passwordHash) = Ok(TRUE)
    /\ users[resp.email].encryptedUserKey.kind = "json"
    /\ users[resp.email].encryptedUserKey.data.kind = "hex"
    /\ users[resp.email].encryptedUserKey.data.of.kind = "gcm_ct"
    /\ users[resp.email].encryptedUserKey.data.of.key # masterKey

(***************************************************************************)
(* Concurrent registrations.  register awaits the lookup of the email, the *)
(* bcrypt hash and the insert; between two awaits of one call the other    *)
(* calls run.  regs[q] is how far call q has got, and its outcome.         *)
(***************************************************************************)
\* the passwords of the register bodies (Undefined: no password member)
RacePasswords == {Str(<< 97 >>), Str(<< 98 >>), Undefined}

\* generateSalt() of call q
RaceSalt(q) == RandomBytes(10 + q, 32)

\* the outcome of a register call as the route answers it
RegDone(data, status, error, result) ==
    [kind |-> "reg", pc |-> "done", email |-> data.email, password |-> data.password,
     status |-> status, error |-> error,
     accessToken |-> IF status = 200 THEN result.accessToken ELSE Undefined,
     userKey |-> IF status = 200 THEN result.userKey ELSE Undefined]

\* mutant of insertUser: the email column has no UNIQUE constraint and the
\* row of the later insert is the one a lookup by email finds
insertUserNoUnique(table, email, row) ==
    Ok([table EXCEPT ![email] = row])

\* db.insert(users).values(row): email is UNIQUE
insertUser(table, email, row) ==
    IF table[email] # None THEN Throw("UNIQUE constraint failed: users.email")
    ELSE Ok([table EXCEPT ![email] = row])

\* call q arrives and looks the email up
RegCheck(q, email, password) ==
    LET data == [email |-> email, password |-> password] IN
    /\ regs[q] = None
    /\ regs' = [regs EXCEPT ![q] =
                  IF users[email] # None
                  THEN RegDone(data, 400, "User already exists", None)
                  ELSE [kind |-> "reg", pc |-> "hash", email |-> email,
                        password |-> password]]
    /\ UNCHANGED << appVars, harnessVars, deriveVars, dataVars, bootVars, ivVars >>

\* bcrypt.hash(password, 12) of call q
RegHash(q) ==
    /\ regs[q] # None /\ regs[q].pc = "hash"
    /\ LET data == [email |-> regs[q].email, password |-> regs[q].password]
           passwordHash == bcryptHash(data.password, BcryptRounds)
       IN  regs' = [regs EXCEPT ![q] =
                      IF passwordHash.kind = "throw"
                      THEN RegDone(data, 400, passwordHash.message, None)
                      ELSE [@ EXCEPT !.pc = "insert"]]
    /\ UNCHANGED << appVars, harnessVars, deriveVars, dataVars, bootVars, ivVars >>

\* call q makes salt, key and wrapped key, inserts the row and returns
RegInsert(q) ==
    /\ regs[q] # None /\ regs[q].pc = "insert"
    /\ LET data == [email |-> regs[q].email, password |-> regs[q].password]
           r == register([e \in Emails |-> None], data, RaceSalt(q),
                         RandomBytes(10 + q, 16), masterKey)
           inserted == IF r.result.kind = "throw" THEN r.result
                       ELSE insertUser(users, data.email, r.users[data.email])
       IN  IF inserted.kind = "throw"
           THEN /\ regs' = [regs EXCEPT ![q] = RegDone(data, 400, inserted.message, None)]
                /\ UNCHANGED users
           ELSE /\ regs' = [regs EXCEPT ![q] = RegDone(data, 200, "", r.result.value)]
                /\ users' = inserted.value
    /\ UNCHANGED << masterKey, people, localStorage, resp, historyVars, harnessVars,
                    deriveVars, dataVars, bootVars, ivVars >>

RaceNext ==
    \/ \E q \in Requests, e \in Emails, pw \in RacePasswords : RegCheck(q, e, pw)
    \/ \E q \in Requests : RegHash(q)
    \/ \E q \in Requests : RegInsert(q)

RaceSpec == Init /\ [][RaceNext]_vars

\* the calls that were answered with tokens and a key for email e
Succeeded(e) ==
    {q \in Requests : IF regs[q] = None THEN FALSE
                      ELSE regs[q].pc = "done" /\ regs[q].email = e
                           /\ regs[q].status = 200}

\* the calls for email e that were refused
Refused(e) ==
    {q \in Requests : IF regs[q] = None THEN FALSE
                      ELSE regs[q].pc = "done" /\ regs[q].email = e
                           /\ regs[q].status # 200}

\* C27: under every interleaving of register calls there is at most one
\* account per email: at most one call for an email is answered with tokens
\* and a key, the row of the account is the one that call wrote and no
\* later step changes it, and every other call that has returned was
\* refused with an error and got no token and no key
C27_OneAccountPerEmail ==
    [][\A e \in Emails :
          /\ Cardinality(Succeeded(e)') <= 1
          /\ (users'[e] # None) = (Succeeded(e)' # {})
          /\ users[e] # None => users'[e] = users[e]
          /\ \A q \in Succeeded(e)' :
                /\ decryptUserKey(users'[e].encryptedUserKey, masterKey)
                      = BufferFromHex(regs'[q].userKey)
                /\ users'[e].encryptionSalt = ToHex(RaceSalt(q))
          /\ \A q \in Refused(e)' :
                /\ regs'[q].error # ""
                /\ regs'[q].userKey = Undefined
                /\ regs'[q].accessToken = Undefined]_vars

\* two calls for one email were both past the lookup before either
\* inserted; one was answered with a key, the other was refused by the
\* database
C27_Witness ==
    \E e \in Emails, q1, q2 \in Requests :
        /\ q1 # q2
        /\ q1 \in Succeeded(e)
        /\ q2 \in Refused(e)
        /\ regs[q2].error = "UNIQUE constraint failed: users.email"
        /\ users[e] # None

(***************************************************************************)
(* Bulk import of several people and relationships in one request.  The    *)
(* route runs its loops inside db.transaction(async (tx) => ..).  The db   *)
(* module is not part of the sources: with an asynchronous driver the      *)
(* callback runs inside the transaction and a throw rolls everything back; *)
(* with a synchronous driver (bun:sqlite, which the migration scripts use) *)
(* the transaction ends when the callback returns its promise, at the      *)
(* first await, and every later statement is committed by itself.          *)
(***************************************************************************)
\* how db.transaction treats the asynchronous callback
TransactionKinds == {"atomic", "autocommit"}

\* the people of an import body: id, attributes (none, or a first name),
\* and the IVs of its encrypt calls
ImportItems ==
    {[id |-> id, person |-> b,
      ivs |-> [a \in Attrs |-> RandomBytes(IF id = "p1" THEN 1 ELSE 2, 16)]] :
        id \in PersonIds, b \in {[f \in PersonFields |-> Undefined], AccessBody}}

\* people lists of an import body
ImportLists ==
    {<< x >> : x \in ImportItems}
    \cup {<< x, y >> : x \in {i \in ImportItems : i.id = "p1"},
                      y \in {i \in ImportItems : i.id = "p2"}}

\* relationship lists of an import body: none, one, one without a type
ImportRelLists ==
    {<< >>, << [id |-> "r1", type |-> Str(<< 112 >>)] >>,
     << [id |-> "r1", type |-> Undefined] >>}

\* X-User-Key headers of an import request: the key of the session, a key
\* of one byte, no header
ImportHeaders ==
    (IF localStorage = None THEN {} ELSE {localStorage.userKey})
    \cup {ToHex(Bytes(<< 171 >>)), Undefined}

\* the loop over peopleList: the table after it, the items written, and the
\* message of the error that ended it ("" if none)
RECURSIVE ImportPeople(_, _, _, _, _)
ImportPeople(table, written, list, userKey, familyTreeId) ==
    IF list = << >> THEN [people |-> table, written |-> written, error |-> ""]
    ELSE LET item == Head(list)
             encryptedPerson == encryptPerson(item.person, userKey, item.ivs)
         IN  IF encryptedPerson.kind = "throw"
             THEN [people |-> table, written |-> written,
                   error |-> encryptedPerson.message]
             ELSE ImportPeople([table EXCEPT ![item.id] =
                                   [kind |-> "row", familyTreeId |-> familyTreeId,
                                    encrypted |-> encryptedPerson.value]],
                               Append(written, item), Tail(list), userKey,
                               familyTreeId)

\* the loop over relationshipsList; type is NOT NULL
RECURSIVE ImportRelationships(_, _, _)
ImportRelationships(table, list, familyTreeId) ==
    IF list = << >> THEN [relationships |-> table, error |-> ""]
    ELSE LET rel == Head(list) IN
         IF rel.type.kind # "string"
         THEN [relationships |-> table,
               error |-> "NOT NULL constraint failed: relationships.type"]
         ELSE ImportRelationships([table EXCEPT ![rel.id] =
                                      [kind |-> "rel", familyTreeId |-> familyTreeId,
                                       type |-> rel.type]],
                                  Tail(list), familyTreeId)

\* POST /api/import with body { people, relationships, familyTreeId }
ImportBatch(keyHeader, peopleList, relationshipsList, familyTreeId, tx) ==
    LET data == [email |-> IF localStorage = None THEN "" ELSE TokenUser,
                 password |-> Undefined]
        userKey == RequestKey(keyHeader)
        fail(status, error) ==
            /\ resp' = Response("import", data, status, error, Undefined)
            /\ UNCHANGED << serverVars, localStorage, historyVars,
                            harnessVars, deriveVars, extraVars >>
    IN
    IF localStorage = None THEN fail(401, "Unauthorized")
    ELSE IF userKey = Undefined THEN fail(400, "Encryption key required")
    ELSE IF familyTreeId = "" THEN fail(400, "Family Tree ID is required")
    ELSE LET p == ImportPeople(people, << >>, peopleList, userKey, familyTreeId)
             r == IF p.error # ""
                  THEN [relationships |-> relationships, error |-> p.error]
                  ELSE ImportRelationships(relationships, relationshipsList,
                                           familyTreeId)
             kept == r.error = "" \/ tx = "autocommit"
             last(id) == LET at == {i \in 1..Len(p.written) : p.written[i].id = id}
                         IN  p.written[CHOOSE i \in at : \A j \in at : j <= i]
         IN  /\ people' = IF kept THEN p.people ELSE people
             /\ relationships' = IF kept THEN r.relationships ELSE relationships
             /\ authored' = [id \in PersonIds |->
                               IF kept /\ \E i \in 1..Len(p.written) : p.written[i].id = id
                               THEN [kind |-> "authored", email |-> data.email,
                                     key |-> userKey, plain |-> last(id).person,
                                     beforeReset |-> FALSE]
                               ELSE authored[id]]
             /\ resp' = IF r.error = ""
                        THEN Response("import", data, 200, "", Undefined)
                        ELSE Response("import", data, 500,
                                      "Import failed: " \o r.error, Undefined)
             /\ UNCHANGED << masterKey, users, localStorage, registered, passwords,
                             harnessVars, deriveVars, events, familyTrees,
                             permissions, bootVars, ivVars, procVars >>

ImportNext ==
    \/ \E e \in Registrants : Register(e, AccessPassword, AccountSalt(e), RandomBytes(1, 16))
    \/ Logout
    \/ \E e \in Registrants : Login(e, AccessPassword)
    \/ \E h \in ImportHeaders, list \in ImportLists, rels \in ImportRelLists,
          t \in TreeIds \cup {""}, tx \in TransactionKinds :
          ImportBatch(h, list, rels, t, tx)

ImportSpec == Init /\ [][ImportNext]_vars

\* C30: an import request that fails leaves the people and relationships
\* tables as they were before it, and one that succeeds has stored every
\* person and every relationship of its body
C30_ImportAllOrNothing ==
    [][\A list \in ImportLists, rels \in ImportRelLists, t \in TreeIds \cup {""} :
          (/\ localStorage # None
           /\ \E h \in ImportHeaders, tx \in TransactionKinds :
                 ImportBatch(h, list, rels, t, tx)) =>
              /\ resp'.status # 200 => UNCHANGED << people, relationships >>
              /\ resp'.status = 200 =>
                    /\ \A i \in 1..Len(list) :
                          /\ people'[list[i].id] # None
                          /\ people'[list[i].id].familyTreeId = t
                    /\ \A i \in 1..Len(rels) :
                          /\ relationships'[rels[i].id] # None
                          /\ relationships'[rels[i].id].type = rels[i].type]_vars

====
